---- MODULE Spec2Model ----
(***************************************************************************)
(* A model of predictor.py (ThomasLee969/owl-sr): the score-distribution   *)
(* builder (predict_match_score / _predict_bo_score), the standings        *)
(* tracker (_update_stage / _update_match_ids / _update_standings) and the *)
(* stage simulator (predict_stage / _predict_stage / _stage_standings).    *)
(*                                                                         *)
(* Representation choices.                                                 *)
(*  - Python str values are sequences of one-character strings, so that    *)
(*    `in` on a str (substring test) and str.startswith are computed.      *)
(*  - A defaultdict is a function on the set of keys it holds; reading a   *)
(*    missing key yields the default and inserts the key.                  *)
(*  - A probability is an integer numerator over the fixed denominator     *)
(*    One = Den^8; a per-game probability is a numerator over Den, and a    *)
(*    product p * q is (p * q) \div Den, which is exact for the at most 8  *)
(*    successive multiplications a match applies (7 games and a            *)
(*    tie-break).                                                          *)
(*  - random() < p and choices() are choices among the outcomes of         *)
(*    positive probability; the predictions of a stage simulation leave    *)
(*    every outcome of a game possible.                                    *)
(*  - sorted() is the list sort of CPython on a list shorter than 64: one  *)
(*    run is counted and then extended by binary insertion.  With a        *)
(*    comparator that draws a coin the result is a set of possible lists.  *)
(***************************************************************************)
EXTENDS Integers, Sequences, FiniteSets, TLC

VARIABLES
    \* ---- predict_match_score / _predict_bo_score (one call in progress)
    bo_pc,              \* "idle" | "loop" | "merge" | "done" | "raised"
    match_format,       \* match.match_format of the call
    drawables,          \* the games of `drawables` not yet played
    max_wins,
    p_undrawable,       \* <<p_win, p_draw>> of self.predict(drawable=False)
    p_drawable,         \* <<p_win, p_draw>> of self.predict(drawable=True)
    p_loss,             \* the local p_loss, set by the last loop iteration
    p_scores,
    p_finished_scores,
    \* ---- Predictor: season standings
    wins,
    losses,
    map_diffs,
    head_to_head_diffs,
    head_to_head_map_diffs,
    \* ---- Predictor: stage standings
    stage,
    base_stage,
    stage_wins,
    stage_losses,
    stage_map_diffs,
    stage_head_to_head_map_diffs,
    stage_title_wins,
    stage_title_losses,
    playoff_wins,
    playoff_losses,
    \* ---- Predictor: match standings
    match_id,
    score,              \* the dict object that is also scores[match_id]
    scores,
    match_history,      \* stage -> team -> list of match ids
    \* ---- observation of _update_standings
    games_fed,          \* number of games _update_standings has processed
    after_update_stage, \* the standings right after its _update_stage call
    opened,             \* the win/loss counters when self.score was opened
    \* ---- rosters (_update_rosters)
    last_full_rosters,
    \* ---- predict_stage / _predict_stage (one call in progress)
    ps_pc,              \* "idle" | "trials" | "returned", and inside an
                        \* iteration "first round" | "semi-finals" | "finals"
    matches,            \* the matches kept by the filter of predict_stage
    iter,               \* iterations of `for _ in range(iters)` completed
    sim_full_rosters,   \* the local `full_rosters`
    scores_list,        \* per match, the scores it can sample
    sim_wins,           \* the local `wins` of the last iteration
    sim_map_diffs,      \* the local `map_diffs` of the last iteration
    sim_head_to_head_map_diffs,
    sim_teams,          \* the list _stage_standings returned to it (`teams`)
    seeds,              \* its seeds, before the bracket is played
    title_count,
    top1_count,
    prediction,         \* the dict predict_stage returns
    \* ---- PlayerTrueSkillPredictor
    rt_pc,              \* "new" | "loaded": initial_ratings.json was read
    ratings,            \* name -> <<mu, sigma>>
    roster_queues,      \* team -> its rosters, the most recent first
    best_rosters,       \* team -> the roster _record_team_ratings recorded
    ratings_history     \* (stage, match number) -> name -> rating

boVars == <<bo_pc, match_format, drawables, max_wins, p_undrawable,
            p_drawable, p_loss, p_scores, p_finished_scores>>

seasonVars == <<wins, losses, map_diffs, head_to_head_diffs,
                head_to_head_map_diffs>>

stageVars == <<stage, base_stage, stage_wins, stage_losses, stage_map_diffs,
               stage_head_to_head_map_diffs, stage_title_wins,
               stage_title_losses, playoff_wins, playoff_losses>>

matchVars == <<match_id, score, scores, match_history>>

obsVars == <<games_fed, after_update_stage, opened>>

rosterVars == <<last_full_rosters>>

trVars == <<seasonVars, stageVars, matchVars, obsVars, rosterVars>>

psVars == <<ps_pc, matches, iter, sim_full_rosters, scores_list, sim_wins,
            sim_map_diffs, sim_head_to_head_map_diffs, sim_teams, seeds,
            title_count, top1_count, prediction>>

rtVars == <<rt_pc, ratings, roster_queues, best_rosters, ratings_history>>

vars == <<boVars, trVars, psVars, rtVars>>

----------------------------------------------------------------------------
(* Bounds *)

\* Per-game probabilities are drawn from the grid 0/Den, 1/Den, ..., Den/Den.
Den == 3

\* Number of completed games fed to _update_standings.
MaxGames == 3

\* `iters` of _predict_stage (100000 in the source).
Iters == 2

\* deque(maxlen=12) of roster_queues
QueueLen == 12

----------------------------------------------------------------------------
(* Python str values *)

Preseason == <<"p","r","e","s","e","a","s","o","n">>
Regular == <<"r","e","g","u","l","a","r">>
BestOf5 == <<"b","e","s","t","-","o","f","-","5">>
BestOf7 == <<"b","e","s","t","-","o","f","-","7">>
Playoff == <<"p","l","a","y","o","f","f">>
BestOf3 == <<"b","e","s","t","-","o","f","-","3">>
BestOf == <<"b","e","s","t","-","o","f">>
Seven == <<"7">>
EmptyStr == <<>>
Title == <<"T","i","t","l","e">>

\* None, where a str is expected: equal to no str value.
None == <<"None">>

\* None, where a match id (a positive int) is expected.
NoMatch == 0

\* s in t, for two str values: s occurs in t as a contiguous substring.
StrIn(s, t) ==
    \E i \in 0..(Len(t) - Len(s)) : SubSeq(t, i + 1, i + Len(s)) = s

\* t.startswith(s)
StartsWith(t, s) ==
    Len(s) <= Len(t) /\ SubSeq(t, 1, Len(s)) = s

----------------------------------------------------------------------------
(* defaultdict *)

EmptyDict == <<>>

\* d[k] read without inserting (the value a read returns)
Get(d, k) == IF k \in DOMAIN d THEN d[k] ELSE 0

\* d[k] += v
Add(d, k, v) ==
    [x \in (DOMAIN d) \cup {k} |-> IF x = k THEN Get(d, k) + v ELSE d[x]]

\* the keys a read of every k in ks inserts with the default value
Touch(d, ks) ==
    [x \in (DOMAIN d) \cup ks |-> Get(d, x)]

RECURSIVE SumOver(_, _)
SumOver(d, keys) ==
    IF keys = {} THEN 0
    ELSE LET k == CHOOSE x \in keys : TRUE
         IN d[k] + SumOver(d, keys \ {k})

\* sum(d.values())
SumValues(d) == SumOver(d, DOMAIN d)

----------------------------------------------------------------------------
(* Score-distribution builder *)

One == Den ^ 8

\* p * q for a mass p (over One) and a per-game probability q (over Den)
Mul(p, q) == (p * q) \div Den

\* The formats of predict_match_score: (drawables, max_wins), or "raise".
\* ('preseason', 'regular') is a tuple; ('best-of-5') and ('best-of-7') are
\* plain str values, so `in` is the substring test there.
FormatOf(fmt) ==
    IF fmt \in {Preseason, Regular}
    THEN [drawables |-> <<TRUE, FALSE, TRUE, FALSE>>, max_wins |-> 4]
    ELSE IF StrIn(fmt, BestOf5)
    THEN [drawables |-> <<FALSE, FALSE, FALSE, FALSE, FALSE>>, max_wins |-> 3]
    ELSE IF StrIn(fmt, BestOf7)
    THEN [drawables |-> <<FALSE, FALSE, FALSE, FALSE, FALSE, FALSE, FALSE>>,
          max_wins |-> 4]
    ELSE [drawables |-> <<>>, max_wins |-> 0 - 1]

Raises(fmt) == FormatOf(fmt).max_wins < 0

\* FanOutItem with the `if drawable:` branch left out.
FanOutItem_NoDrawBranch(acc, s, p, mw, drawable, pw, pd, pl) ==
    LET a1 == IF s[1] + 1 = mw
              THEN [acc EXCEPT !.fin = Add(acc.fin, <<s[1] + 1, s[2]>>, Mul(p, pw))]
              ELSE [acc EXCEPT !.new = Add(acc.new, <<s[1] + 1, s[2]>>, Mul(p, pw))]
    IN IF s[2] + 1 = mw
       THEN [a1 EXCEPT !.fin = Add(a1.fin, <<s[1], s[2] + 1>>, Mul(p, pl))]
       ELSE [a1 EXCEPT !.new = Add(a1.new, <<s[1], s[2] + 1>>, Mul(p, pl))]

\* FanOutItem with the clinch test one game late (score == max_wins).
FanOutItem_LateClinch(acc, s, p, mw, drawable, pw, pd, pl) ==
    LET a1 == IF s[1] = mw
              THEN [acc EXCEPT !.fin = Add(acc.fin, <<s[1] + 1, s[2]>>, Mul(p, pw))]
              ELSE [acc EXCEPT !.new = Add(acc.new, <<s[1] + 1, s[2]>>, Mul(p, pw))]
        a2 == IF s[2] = mw
              THEN [a1 EXCEPT !.fin = Add(a1.fin, <<s[1], s[2] + 1>>, Mul(p, pl))]
              ELSE [a1 EXCEPT !.new = Add(a1.new, <<s[1], s[2] + 1>>, Mul(p, pl))]
    IN IF drawable
       THEN [a2 EXCEPT !.new = Add(a2.new, s, Mul(p, pd))]
       ELSE a2

\* One pass of `for (score1, score2), p in p_scores.items()` of a scheduled
\* game: acc is [new |-> new_p_scores, fin |-> p_finished_scores].
FanOutItem(acc, s, p, mw, drawable, pw, pd, pl) ==
    LET a1 == IF s[1] + 1 = mw
              THEN [acc EXCEPT !.fin = Add(acc.fin, <<s[1] + 1, s[2]>>, Mul(p, pw))]
              ELSE [acc EXCEPT !.new = Add(acc.new, <<s[1] + 1, s[2]>>, Mul(p, pw))]
        a2 == IF s[2] + 1 = mw
              THEN [a1 EXCEPT !.fin = Add(a1.fin, <<s[1], s[2] + 1>>, Mul(p, pl))]
              ELSE [a1 EXCEPT !.new = Add(a1.new, <<s[1], s[2] + 1>>, Mul(p, pl))]
    IN IF drawable
       THEN [a2 EXCEPT !.new = Add(a2.new, s, Mul(p, pd))]
       ELSE a2

RECURSIVE FanOut(_, _, _, _, _, _, _, _)
FanOut(acc, ps, keys, mw, drawable, pw, pd, pl) ==
    IF keys = {} THEN acc
    ELSE LET s == CHOOSE x \in keys : TRUE
         IN FanOut(FanOutItem(acc, s, ps[s], mw, drawable, pw, pd, pl),
                   ps, keys \ {s}, mw, drawable, pw, pd, pl)

\* TieBreakItem that plays the tie-break game as a drawable one would be
\* played: the level branch keeps its mass.
TieBreakItem_KeepLevel(new, s, p, pw, pl) ==
    Add(new, s, p)

\* One item of the tie-breaker loop.
TieBreakItem(new, s, p, pw, pl) ==
    IF s[1] = s[2]
    THEN Add(Add(new, <<s[1] + 1, s[2]>>, Mul(p, pw)),
             <<s[1], s[2] + 1>>, Mul(p, pl))
    ELSE Add(new, s, p)

RECURSIVE TieBreak(_, _, _, _, _)
TieBreak(new, ps, keys, pw, pl) ==
    IF keys = {} THEN new
    ELSE LET s == CHOOSE x \in keys : TRUE
         IN TieBreak(TieBreakItem(new, s, ps[s], pw, pl), ps, keys \ {s}, pw, pl)

\* `for scores, p in p_finished_scores.items(): p_scores[scores] += p`
RECURSIVE MergeFinished(_, _, _)
MergeFinished(ps, fin, keys) ==
    IF keys = {} THEN ps
    ELSE LET s == CHOOSE x \in keys : TRUE
         IN MergeFinished(Add(ps, s, fin[s]), fin, keys \ {s})

\* The match formats a call may carry, and the values self.predict returns.
Formats == {Preseason, Regular, BestOf5, BestOf7, Playoff, BestOf3, BestOf,
            Seven, EmptyStr}

UndrawablePredictions == {<<w, 0>> : w \in 0..Den}

DrawablePredictions == {<<w, d>> : w \in 0..Den, d \in 0..Den} \cap
                       {x \in (0..Den) \X (0..Den) : x[1] + x[2] <= Den}

BoIdle == bo_pc \in {"idle", "done", "raised"}

\* predict_match_score up to the first loop iteration of _predict_bo_score
predict_match_score(fmt, pu, pd) ==
    /\ BoIdle
    /\ match_format' = fmt
    /\ IF Raises(fmt)
       THEN /\ bo_pc' = "raised"
            /\ drawables' = <<>>
            /\ max_wins' = 0
            /\ p_undrawable' = <<0, 0>>
            /\ p_drawable' = <<0, 0>>
            /\ p_scores' = EmptyDict
            /\ p_finished_scores' = EmptyDict
       ELSE /\ bo_pc' = "loop"
            /\ drawables' = FormatOf(fmt).drawables
            /\ max_wins' = FormatOf(fmt).max_wins
            /\ p_undrawable' = pu
            /\ p_drawable' = pd
            /\ p_scores' = Add(EmptyDict, <<0, 0>>, One)
            /\ p_finished_scores' = EmptyDict
    /\ p_loss' = 0
    /\ UNCHANGED <<trVars, psVars, rtVars>>

\* One iteration of `for drawable in drawables`
BoGame ==
    /\ bo_pc = "loop"
    /\ drawables # <<>>
    /\ LET drawable == Head(drawables)
           pp == IF drawable THEN p_drawable ELSE p_undrawable
           pl == Den - pp[1] - pp[2]
           r == FanOut([new |-> EmptyDict, fin |-> p_finished_scores],
                       p_scores, DOMAIN p_scores, max_wins, drawable,
                       pp[1], pp[2], pl)
       IN /\ p_loss' = pl
          /\ p_scores' = r.new
          /\ p_finished_scores' = r.fin
    /\ drawables' = Tail(drawables)
    /\ UNCHANGED <<bo_pc, match_format, max_wins, p_undrawable, p_drawable>>
    /\ UNCHANGED <<trVars, psVars, rtVars>>

\* "Add a tie-breaker game if needed": p_win is the undrawable one, p_loss
\* is the value the last loop iteration left.
BoTieBreak ==
    /\ bo_pc = "loop"
    /\ drawables = <<>>
    /\ p_scores' = TieBreak(EmptyDict, p_scores, DOMAIN p_scores,
                            p_undrawable[1], p_loss)
    /\ bo_pc' = "merge"
    /\ UNCHANGED <<match_format, drawables, max_wins, p_undrawable,
                   p_drawable, p_loss, p_finished_scores>>
    /\ UNCHANGED <<trVars, psVars, rtVars>>

\* "Merge finished scores back" and return p_scores
BoMerge ==
    /\ bo_pc = "merge"
    /\ p_scores' = MergeFinished(p_scores, p_finished_scores,
                                 DOMAIN p_finished_scores)
    /\ bo_pc' = "done"
    /\ UNCHANGED <<match_format, drawables, max_wins, p_undrawable,
                   p_drawable, p_loss, p_finished_scores>>
    /\ UNCHANGED <<trVars, psVars, rtVars>>

BoInit ==
    /\ bo_pc = "idle"
    /\ match_format = EmptyStr
    /\ drawables = <<>>
    /\ max_wins = 0
    /\ p_undrawable = <<0, 0>>
    /\ p_drawable = <<0, 0>>
    /\ p_loss = 0
    /\ p_scores = EmptyDict
    /\ p_finished_scores = EmptyDict

BoCall ==
    \E fmt \in Formats, pu \in UndrawablePredictions, pd \in DrawablePredictions :
        predict_match_score(fmt, pu, pd)

----------------------------------------------------------------------------
(* Standings tracker *)

\* The Predictor fields _update_standings reads and writes, as one value.
Tracker ==
    [wins |-> wins, losses |-> losses, map_diffs |-> map_diffs,
     head_to_head_diffs |-> head_to_head_diffs,
     head_to_head_map_diffs |-> head_to_head_map_diffs,
     stage |-> stage, base_stage |-> base_stage,
     stage_wins |-> stage_wins, stage_losses |-> stage_losses,
     stage_map_diffs |-> stage_map_diffs,
     stage_head_to_head_map_diffs |-> stage_head_to_head_map_diffs,
     stage_title_wins |-> stage_title_wins,
     stage_title_losses |-> stage_title_losses,
     playoff_wins |-> playoff_wins, playoff_losses |-> playoff_losses,
     match_id |-> match_id, score |-> score, scores |-> scores,
     match_history |-> match_history]

\* Predictor.__init__
NewTracker ==
    [wins |-> EmptyDict, losses |-> EmptyDict, map_diffs |-> EmptyDict,
     head_to_head_diffs |-> EmptyDict,
     head_to_head_map_diffs |-> EmptyDict,
     stage |-> None, base_stage |-> None,
     stage_wins |-> EmptyDict, stage_losses |-> EmptyDict,
     stage_map_diffs |-> EmptyDict,
     stage_head_to_head_map_diffs |-> EmptyDict,
     stage_title_wins |-> EmptyDict,
     stage_title_losses |-> EmptyDict,
     playoff_wins |-> EmptyDict, playoff_losses |-> EmptyDict,
     match_id |-> NoMatch, score |-> EmptyDict, scores |-> EmptyDict,
     match_history |-> EmptyDict]

\* _update_stage that also clears the stage standings when the title
\* matches are entered.
update_stage_ClearOnTitle(s, stg) ==
    IF stg # s.stage
    THEN [s EXCEPT !.base_stage = IF s.stage # None /\ StartsWith(stg, s.stage)
                                  THEN s.stage ELSE stg,
                   !.stage = stg,
                   !.stage_wins = EmptyDict,
                   !.stage_losses = EmptyDict,
                   !.stage_map_diffs = EmptyDict,
                   !.stage_head_to_head_map_diffs = EmptyDict,
                   !.stage_title_wins = EmptyDict,
                   !.stage_title_losses = EmptyDict]
    ELSE s

\* _update_stage
update_stage(s, stg) ==
    IF stg # s.stage
    THEN IF s.stage # None /\ StartsWith(stg, s.stage)
         THEN \* Entering the title matches.
              [s EXCEPT !.base_stage = s.stage,
                        !.stage = stg]
         ELSE \* Entering a new stage.
              [s EXCEPT !.base_stage = stg,
                        !.stage = stg,
                        !.stage_wins = EmptyDict,
                        !.stage_losses = EmptyDict,
                        !.stage_map_diffs = EmptyDict,
                        !.stage_head_to_head_map_diffs = EmptyDict,
                        !.stage_title_wins = EmptyDict,
                        !.stage_title_losses = EmptyDict]
    ELSE s

\* self.match_history[stg][team].append(mid)
AppendHistory(mh, stg, team, mid) ==
    LET byTeam == IF stg \in DOMAIN mh THEN mh[stg] ELSE EmptyDict
        list == IF team \in DOMAIN byTeam THEN byTeam[team] ELSE <<>>
        byTeam2 == [x \in (DOMAIN byTeam) \cup {team} |->
                       IF x = team THEN Append(list, mid) ELSE byTeam[x]]
    IN [x \in (DOMAIN mh) \cup {stg} |-> IF x = stg THEN byTeam2 ELSE mh[x]]

\* d[k] = v on a plain dict
Put(d, k, v) ==
    [x \in (DOMAIN d) \cup {k} |-> IF x = k THEN v ELSE d[x]]

\* _update_match_ids
update_match_ids(s, mid, teams) ==
    IF mid # s.match_id
    THEN LET fresh == [t \in {teams[1], teams[2]} |-> 0]
         IN [s EXCEPT !.match_id = mid,
                      !.score = fresh,
                      !.scores = Put(s.scores, mid, fresh),
                      !.match_history =
                          AppendHistory(AppendHistory(s.match_history, s.stage,
                                                      teams[1], mid),
                                        s.stage, teams[2], mid)]
    ELSE s

\* BookMaps without the entries of the loser
BookMaps_WinnerOnly(s, winner, loser) ==
    [s EXCEPT
        !.map_diffs = Add(s.map_diffs, winner, 1),
        !.head_to_head_map_diffs =
            Add(s.head_to_head_map_diffs, <<winner, loser>>, 1),
        !.stage_map_diffs = Add(s.stage_map_diffs, winner, 1),
        !.stage_head_to_head_map_diffs =
            Add(s.stage_head_to_head_map_diffs, <<winner, loser>>, 1)]

\* "Season standings" / "Stage standings" map differentials of one game
BookMaps(s, winner, loser) ==
    [s EXCEPT
        !.map_diffs = Add(Add(s.map_diffs, winner, 1), loser, 0 - 1),
        !.head_to_head_map_diffs =
            Add(Add(s.head_to_head_map_diffs, <<winner, loser>>, 1),
                <<loser, winner>>, 0 - 1),
        !.stage_map_diffs = Add(Add(s.stage_map_diffs, winner, 1), loser, 0 - 1),
        !.stage_head_to_head_map_diffs =
            Add(Add(s.stage_head_to_head_map_diffs, <<winner, loser>>, 1),
                <<loser, winner>>, 0 - 1)]

\* "The winner won the match."
BookWin(s, winner, loser, is_regular, is_title, is_playoff) ==
    IF is_regular
    THEN [s EXCEPT
            !.wins = Add(s.wins, winner, 1),
            !.losses = Add(s.losses, loser, 1),
            !.head_to_head_diffs =
                Add(Add(s.head_to_head_diffs, <<winner, loser>>, 1),
                    <<loser, winner>>, 0 - 1),
            !.stage_wins = Add(s.stage_wins, winner, 1),
            !.stage_losses = Add(s.stage_losses, loser, 1)]
    ELSE IF is_title
    THEN [s EXCEPT
            !.stage_title_wins = Add(s.stage_title_wins, winner, 1),
            !.stage_title_losses = Add(s.stage_title_losses, loser, 1)]
    ELSE IF is_playoff
    THEN [s EXCEPT
            !.playoff_wins = Add(s.playoff_wins, winner, 1),
            !.playoff_losses = Add(s.playoff_losses, loser, 1)]
    ELSE s

\* "The winner avoided the loss."
UnbookWin(s, winner, loser, is_regular, is_title, is_playoff) ==
    IF is_regular
    THEN [s EXCEPT
            !.wins = Add(s.wins, loser, 0 - 1),
            !.losses = Add(s.losses, winner, 0 - 1),
            !.head_to_head_diffs =
                Add(Add(s.head_to_head_diffs, <<winner, loser>>, 1),
                    <<loser, winner>>, 0 - 1),
            !.stage_wins = Add(s.stage_wins, loser, 0 - 1),
            !.stage_losses = Add(s.stage_losses, winner, 0 - 1)]
    ELSE IF is_title
    THEN [s EXCEPT
            !.stage_title_wins = Add(s.stage_title_wins, loser, 0 - 1),
            !.stage_title_losses = Add(s.stage_title_losses, winner, 0 - 1)]
    ELSE IF is_playoff
    THEN [s EXCEPT
            !.playoff_wins = Add(s.playoff_wins, loser, 0 - 1),
            !.playoff_losses = Add(s.playoff_losses, winner, 0 - 1)]
    ELSE s

\* HandleMatchResult that reverses whenever the game's winner was behind,
\* by any margin.
HandleMatchResult_ReverseWhenBehind(s, winner, loser, is_regular, is_title, is_playoff) ==
    IF s.score[winner] = s.score[loser]
    THEN BookWin(s, winner, loser, is_regular, is_title, is_playoff)
    ELSE IF s.score[winner] < s.score[loser]
    THEN UnbookWin(s, winner, loser, is_regular, is_title, is_playoff)
    ELSE s

\* "Handle the match result."
HandleMatchResult(s, winner, loser, is_regular, is_title, is_playoff) ==
    IF s.score[winner] = s.score[loser]
    THEN BookWin(s, winner, loser, is_regular, is_title, is_playoff)
    ELSE IF s.score[winner] = s.score[loser] - 1
    THEN UnbookWin(s, winner, loser, is_regular, is_title, is_playoff)
    ELSE s

\* self.score[winner] += 1; self.score is the object stored in self.scores
BumpScore(s, winner) ==
    LET sc == [s.score EXCEPT ![winner] = @ + 1]
    IN [s EXCEPT !.score = sc, !.scores = Put(s.scores, s.match_id, sc)]

\* CountGame that books the map differentials of a game of any format
CountGame_MapsInEveryFormat(s, game) ==
    LET is_regular == game.match_format = Regular
        is_title == StrIn(Title, game.stage)
        is_playoff == game.match_format = Playoff
        winner == IF game.score[1] > game.score[2]
                  THEN game.teams[1] ELSE game.teams[2]
        loser == IF game.score[1] > game.score[2]
                 THEN game.teams[2] ELSE game.teams[1]
        s1 == BookMaps(s, winner, loser)
        s2 == HandleMatchResult(s1, winner, loser, is_regular, is_title,
                                is_playoff)
    IN IF game.score[1] # game.score[2]
       THEN BumpScore(s2, winner)
       ELSE s

\* _update_standings after its calls of _update_stage and _update_match_ids
CountGame(s, game) ==
    LET is_regular == game.match_format = Regular
        is_title == StrIn(Title, game.stage)
        is_playoff == game.match_format = Playoff
        winner == IF game.score[1] > game.score[2]
                  THEN game.teams[1] ELSE game.teams[2]
        loser == IF game.score[1] > game.score[2]
                 THEN game.teams[2] ELSE game.teams[1]
        s1 == IF is_regular THEN BookMaps(s, winner, loser) ELSE s
        s2 == HandleMatchResult(s1, winner, loser, is_regular, is_title,
                                is_playoff)
    IN IF game.score[1] # game.score[2]
       THEN BumpScore(s2, winner)
       ELSE s

\* _update_standings
update_standings(s, game) ==
    CountGame(update_match_ids(update_stage(s, game.stage), game.match_id,
                               game.teams),
              game)

\* The win/loss counters of a tracker value
WinLoss(s) ==
    [wins |-> s.wins, losses |-> s.losses,
     stage_wins |-> s.stage_wins, stage_losses |-> s.stage_losses,
     stage_title_wins |-> s.stage_title_wins,
     stage_title_losses |-> s.stage_title_losses,
     playoff_wins |-> s.playoff_wins, playoff_losses |-> s.playoff_losses]

\* Stage names of the feed
Stage1 == <<"S","1">>
Stage1Title == <<"S","1"," ","T","i","t","l","e">>
Stage2 == <<"S","2">>
PlayoffStage == <<"P","O">>
PreStage == <<"P","r","e">>

\* The matches of the feed: a match id fixes the teams, the stage and the
\* format of its games.
Schedule ==
    <<[teams |-> <<"T1", "T2">>, stage |-> Stage1, match_format |-> Regular],
      [teams |-> <<"T2", "T1">>, stage |-> Stage1Title, match_format |-> BestOf5],
      [teams |-> <<"T1", "T3">>, stage |-> Stage2, match_format |-> Regular],
      [teams |-> <<"T3", "T1">>, stage |-> PlayoffStage, match_format |-> Playoff],
      [teams |-> <<"T2", "T3">>, stage |-> PreStage, match_format |-> Preseason]>>

\* game.score of one completed game: a win of either side or a draw
GameScores == {<<1, 0>>, <<0, 1>>, <<2, 2>>}

\* The full roster a team has used so far
FullRosterOf(team) == {<<team, "a">>, <<team, "b">>}

GameOf(mid, sc) ==
    [match_id |-> mid, teams |-> Schedule[mid].teams,
     stage |-> Schedule[mid].stage,
     match_format |-> Schedule[mid].match_format, score |-> sc,
     full_rosters |-> <<FullRosterOf(Schedule[mid].teams[1]),
                        FullRosterOf(Schedule[mid].teams[2])>>]

\* _update_rosters, the part kept in last_full_rosters
update_rosters(lfr, game) ==
    Put(Put(lfr, game.teams[1], game.full_rosters[1]),
        game.teams[2], game.full_rosters[2])

SetTracker(r) ==
    /\ wins' = r.wins
    /\ losses' = r.losses
    /\ map_diffs' = r.map_diffs
    /\ head_to_head_diffs' = r.head_to_head_diffs
    /\ head_to_head_map_diffs' = r.head_to_head_map_diffs
    /\ stage' = r.stage
    /\ base_stage' = r.base_stage
    /\ stage_wins' = r.stage_wins
    /\ stage_losses' = r.stage_losses
    /\ stage_map_diffs' = r.stage_map_diffs
    /\ stage_head_to_head_map_diffs' = r.stage_head_to_head_map_diffs
    /\ stage_title_wins' = r.stage_title_wins
    /\ stage_title_losses' = r.stage_title_losses
    /\ playoff_wins' = r.playoff_wins
    /\ playoff_losses' = r.playoff_losses
    /\ match_id' = r.match_id
    /\ score' = r.score
    /\ scores' = r.scores
    /\ match_history' = r.match_history

\* _update_standings(game) on o.tr, with the two observations
Feed(o, game) ==
    LET staged == update_stage(o.tr, game.stage)
    IN [tr |-> update_standings(o.tr, game),
        staged |-> staged,
        opened |-> IF game.match_id # o.tr.match_id THEN WinLoss(staged)
                   ELSE o.opened]

Observed == [tr |-> Tracker, staged |-> after_update_stage, opened |-> opened]

\* train(game): _update_rosters and _update_standings
Train(game) ==
    /\ games_fed' = games_fed + 1
    /\ last_full_rosters' = update_rosters(last_full_rosters, game)
    /\ LET o == Feed(Observed, game)
       IN /\ after_update_stage' = o.staged
          /\ opened' = o.opened
          /\ SetTracker(o.tr)
    /\ UNCHANGED <<boVars, psVars>>

\* One completed game trained
UpdateStandings(game) ==
    /\ games_fed < MaxGames
    /\ rt_pc = "new"
    /\ Train(game)
    /\ UNCHANGED rtVars

TrackerInit ==
    /\ wins = NewTracker.wins
    /\ losses = NewTracker.losses
    /\ map_diffs = NewTracker.map_diffs
    /\ head_to_head_diffs = NewTracker.head_to_head_diffs
    /\ head_to_head_map_diffs = NewTracker.head_to_head_map_diffs
    /\ stage = NewTracker.stage
    /\ base_stage = NewTracker.base_stage
    /\ stage_wins = NewTracker.stage_wins
    /\ stage_losses = NewTracker.stage_losses
    /\ stage_map_diffs = NewTracker.stage_map_diffs
    /\ stage_head_to_head_map_diffs = NewTracker.stage_head_to_head_map_diffs
    /\ stage_title_wins = NewTracker.stage_title_wins
    /\ stage_title_losses = NewTracker.stage_title_losses
    /\ playoff_wins = NewTracker.playoff_wins
    /\ playoff_losses = NewTracker.playoff_losses
    /\ match_id = NewTracker.match_id
    /\ score = NewTracker.score
    /\ scores = NewTracker.scores
    /\ match_history = NewTracker.match_history
    /\ games_fed = 0
    /\ last_full_rosters = EmptyDict
    /\ after_update_stage = NewTracker
    /\ opened = WinLoss(NewTracker)

TrainGame ==
    \E mid \in DOMAIN Schedule, sc \in GameScores :
        UpdateStandings(GameOf(mid, sc))

----------------------------------------------------------------------------
(* Stage simulator *)

\* game.TEAMS and game.TEAM_DIVISIONS
TEAMS == <<"T1", "T2", "T3", "T4", "T5", "T6", "T7", "T8", "T9">>

TeamSet == {TEAMS[i] : i \in DOMAIN TEAMS}

TEAM_DIVISIONS ==
    [t \in TeamSet |-> IF t \in {"T1", "T2", "T4", "T7", "T9"} THEN "ATL" ELSE "PAC"]

RECURSIVE BoGames(_, _, _, _, _, _, _)
BoGames(ds, ps, fin, pl, mw, pu, pd) ==
    IF ds = <<>> THEN [ps |-> ps, fin |-> fin, p_loss |-> pl]
    ELSE LET pp == IF Head(ds) THEN pd ELSE pu
             l == Den - pp[1] - pp[2]
             r == FanOut([new |-> EmptyDict, fin |-> fin], ps, DOMAIN ps, mw,
                         Head(ds), pp[1], pp[2], l)
         IN BoGames(Tail(ds), r.new, r.fin, l, mw, pu, pd)

\* _predict_bo_score as one function
predict_bo_score(ds, mw, pu, pd) ==
    LET g == BoGames(ds, Add(EmptyDict, <<0, 0>>, One), EmptyDict, 0, mw, pu, pd)
        tb == TieBreak(EmptyDict, g.ps, DOMAIN g.ps, pu[1], g.p_loss)
    IN MergeFinished(tb, g.fin, DOMAIN g.fin)

\* The values self.predict may return for the teams of a remaining match:
\* every outcome of a game has a positive probability.
OpenUndrawable == {p \in UndrawablePredictions : 0 < p[1] /\ p[1] < Den}

OpenDrawable ==
    {p \in DrawablePredictions : 0 < p[1] /\ 0 < p[2] /\ p[1] + p[2] < Den}

\* _match_scores_cum_weights: per match, the scores of positive weight, those
\* choices(scores, cum_weights) can return
match_scores(ms, pu, pd) ==
    [i \in DOMAIN ms |->
        LET f == FormatOf(ms[i].match_format)
            ps == predict_bo_score(f.drawables, f.max_wins, pu, pd)
        IN {s \in DOMAIN ps : ps[s] > 0}]

\* One choices() draw per match
Samples(sl) ==
    {f \in [DOMAIN sl -> UNION {sl[i] : i \in DOMAIN sl}] :
        \A i \in DOMAIN sl : f[i] \in sl[i]}

\* The body of `for match, scores, cum_weights in zip(...)`; l holds the
\* local wins, map_diffs and head_to_head_map_diffs.
PlayMatch(l, match, sc) ==
    LET team1 == match.teams[1]
        team2 == match.teams[2]
        map_diff == sc[1] - sc[2]
    IN [wins |-> IF sc[1] > sc[2] THEN Add(l.wins, team1, 1)
                 ELSE IF sc[1] < sc[2] THEN Add(l.wins, team2, 1)
                 ELSE l.wins,
        map_diffs |-> Add(Add(l.map_diffs, team1, map_diff), team2, 0 - map_diff),
        head_to_head_map_diffs |->
            Add(Add(l.head_to_head_map_diffs, <<team1, team2>>, map_diff),
                <<team2, team1>>, 0 - map_diff)]

RECURSIVE PlayAll(_, _, _, _)
PlayAll(l, ms, f, i) ==
    IF i > Len(ms) THEN l
    ELSE PlayAll(PlayMatch(l, ms[i], f[i]), ms, f, i + 1)

\* cmp_team that goes from the wins straight to the head-to-head record.
cmp_team_SkipMapDiffs(k, team1, team2) ==
    IF Get(k.wins, team1) < Get(k.wins, team2) THEN {0 - 1}
    ELSE IF Get(k.wins, team1) > Get(k.wins, team2) THEN {1}
    ELSE IF Get(k.head_to_head_map_diffs, <<team1, team2>>) < 0 THEN {0 - 1}
    ELSE IF Get(k.head_to_head_map_diffs, <<team1, team2>>) > 0 THEN {1}
    ELSE {1, 0 - 1}

\* cmp_team of _stage_standings: the values one call can return.  k holds
\* wins, map_diffs and head_to_head_map_diffs; the last branch is decided by
\* random() < p_wins_regular[(team1, team2)].
cmp_team(k, team1, team2) ==
    IF Get(k.wins, team1) < Get(k.wins, team2) THEN {0 - 1}
    ELSE IF Get(k.wins, team1) > Get(k.wins, team2) THEN {1}
    ELSE IF Get(k.map_diffs, team1) < Get(k.map_diffs, team2) THEN {0 - 1}
    ELSE IF Get(k.map_diffs, team1) > Get(k.map_diffs, team2) THEN {1}
    ELSE IF Get(k.head_to_head_map_diffs, <<team1, team2>>) < 0 THEN {0 - 1}
    ELSE IF Get(k.head_to_head_map_diffs, <<team1, team2>>) > 0 THEN {1}
    ELSE {1, 0 - 1}

\* x < y on the keys cmp_to_key makes: what the sort asks
ISLT(k, x, y) == {r < 0 : r \in cmp_team(k, x, y)}

\* list.reverse()
Reverse(s) == [i \in 1..Len(s) |-> s[Len(s) + 1 - i]]

\* The sort's count_run from the front of a: the run lengths it can return
\* with the run ascending (desc = FALSE) or strictly descending; i is the
\* next index compared with its predecessor.
RECURSIVE RunEnd(_, _, _, _)
RunEnd(k, a, i, desc) ==
    IF i > Len(a) THEN {Len(a)}
    ELSE UNION {IF b = desc THEN RunEnd(k, a, i + 1, desc) ELSE {i - 1} :
                b \in ISLT(k, a[i], a[i - 1])}

count_run(k, a) ==
    IF Len(a) < 2 THEN {[n |-> Len(a), descending |-> FALSE]}
    ELSE UNION {{[n |-> n, descending |-> b] : n \in RunEnd(k, a, 3, b)} :
                b \in ISLT(k, a[2], a[1])}

\* The sort's binary search for pivot in a[l+1..r] (0-based bounds l, r as in
\* the C code): the insertion points it can end at.
RECURSIVE InsertionPoints(_, _, _, _, _)
InsertionPoints(k, a, pivot, l, r) ==
    LET p == l + ((r - l) \div 2)
    IN UNION {IF b
              THEN (IF l < p THEN InsertionPoints(k, a, pivot, l, p) ELSE {l})
              ELSE (IF p + 1 < r THEN InsertionPoints(k, a, pivot, p + 1, r)
                    ELSE {p + 1}) :
              b \in ISLT(k, pivot, a[p + 1])}

\* a with a[start] moved in front of the element at 0-based index l
MoveTo(a, start, l) ==
    [i \in 1..Len(a) |->
        IF i <= l THEN a[i]
        ELSE IF i = l + 1 THEN a[start]
        ELSE IF i <= start THEN a[i - 1]
        ELSE a[i]]

\* The sort's binarysort: a[1..start-1] is sorted, the rest is inserted
\* one by one.
RECURSIVE binarysort(_, _, _)
binarysort(k, a, start) ==
    IF start > Len(a) THEN {a}
    ELSE UNION {binarysort(k, MoveTo(a, start, l), start + 1) :
                l \in InsertionPoints(k, a, a[start], 0, start - 1)}

\* sorted(a, key=cmp_to_key(cmp_team), reverse=True) for a list shorter than
\* 64: reverse, one run counted and extended by binary insertion, reverse.
sorted_reverse(k, a) ==
    UNION {{Reverse(s) :
            s \in binarysort(k,
                             IF run.descending
                             THEN Reverse(SubSeq(Reverse(a), 1, run.n)) \o
                                  SubSeq(Reverse(a), run.n + 1, Len(a))
                             ELSE Reverse(a),
                             run.n + 1)} :
           run \in count_run(k, Reverse(a))}

\* _stage_standings: the lists it can return
stage_standings(w, md, h2h) ==
    sorted_reverse([wins |-> w, map_diffs |-> md,
                    head_to_head_map_diffs |-> h2h], TEAMS)

\* Seed selection that leaves the second seed in the list of the others.
SelectSeeds_NoDelete(ranked) ==
    LET first == Head(ranked)
        rest == Tail(ranked)
        other == {i \in DOMAIN rest :
                     TEAM_DIVISIONS[rest[i]] # TEAM_DIVISIONS[first]}
        i0 == CHOOSE i \in other : \A j \in other : i <= j
    IN IF other = {} THEN <<first>> \o SubSeq(rest, 1, 6)
       ELSE <<first, rest[i0]>> \o SubSeq(rest, 1, 6)

\* "Determine the seeds.": Seed 0, Seed 1, Seed 2-7
SelectSeeds(ranked) ==
    LET first == Head(ranked)
        rest == Tail(ranked)
        other == {i \in DOMAIN rest :
                     TEAM_DIVISIONS[rest[i]] # TEAM_DIVISIONS[first]}
        i0 == CHOOSE i \in other : \A j \in other : i <= j
        left == SubSeq(rest, 1, i0 - 1) \o SubSeq(rest, i0 + 1, Len(rest))
    IN IF other = {} THEN <<first>> \o SubSeq(rest, 1, 6)
       ELSE <<first, rest[i0]>> \o SubSeq(left, 1, 6)

\* [team for team in seeds if team is not None], the indices in idx kept
Survivors(s, idx) ==
    LET nth(n) == CHOOSE i \in idx : Cardinality({j \in idx : j < i}) = n - 1
    IN [n \in 1..Cardinality(idx) |-> s[nth(n)]]

\* Semi-finals that pair the first survivor with the second, the third with
\* the fourth
SemiFinals_NeighboursPaired(s) ==
    {Survivors(s, {a, b}) : a \in {1, 2}, b \in {3, 4}}

\* "Determine top 1 teams.": the teams the three rounds can leave
FirstRound(s) ==
    {Survivors(s, {a, b, c, d}) :
        a \in {1, 8}, b \in {2, 7}, c \in {3, 6}, d \in {4, 5}}

SemiFinals(s) == {Survivors(s, {a, b}) : a \in {1, 4}, b \in {2, 3}}

Finals(s) == {Survivors(s, {a}) : a \in {1, 2}}

Top1(s) ==
    UNION {UNION {{f[1] : f \in Finals(sf)} : sf \in SemiFinals(qf)} :
           qf \in FirstRound(s)}

\* The dict an iteration writes to being self.stage_wins itself, not a copy.
KeptAfterCopy_Alias(original, written) == written

\* self.stage_wins after an iteration has written to self.stage_wins.copy()
\* (and likewise for the other two copies): the original keeps its entries.
KeptAfterCopy(original, written) == original


\* a < b and a > b on (win, map_diff) tuples
TupleLt(a, b) == a[1] < b[1] \/ (a[1] = b[1] /\ a[2] < b[2])

TupleGt(a, b) == TupleLt(b, a)

\* list(sorted(d.values()))[n - 1], the index counted from the front
NthLargest_FromTheFront(d, n) ==
    LET vals == {d[t] : t \in DOMAIN d}
    IN CHOOSE v \in vals :
          /\ Cardinality({t \in DOMAIN d : TupleLt(d[t], v)}) < n
          /\ Cardinality({t \in DOMAIN d : ~TupleGt(d[t], v)}) >= n

\* list(sorted(d.values()))[-n]
NthLargest(d, n) ==
    LET vals == {d[t] : t \in DOMAIN d}
    IN CHOOSE v \in vals :
          /\ Cardinality({t \in DOMAIN d : TupleGt(d[t], v)}) < n
          /\ Cardinality({t \in DOMAIN d : ~TupleLt(d[t], v)}) >= n

\* The number of entries of a list that equal x
Count(s, x) == Cardinality({i \in DOMAIN s : s[i] = x})

\* The teams of a list of matches, one entry per appearance
Appearances(ms, team) ==
    Cardinality({<<i, j>> \in (DOMAIN ms) \X {1, 2} : ms[i].teams[j] = team})

\* stage_finished that is true from the first title loss on
stage_finished_AnyLoss(title_losses) == SumValues(title_losses) > 0

\* stage_finished
stage_finished(title_losses) == SumValues(title_losses) = 3

\* A returned probability: a count over iters, or a bool forced by
\* "Normalize 0% and 100% for predictions."
Ratio(n) == <<"ratio", n>>

False == <<"bool", 0>>

True == <<"bool", 1>>

\* The matches a caller may pass to predict_stage
Fixtures ==
    <<[teams |-> <<"T5", "T6">>, stage |-> Stage1, match_format |-> Regular,
       full_rosters |-> <<{<<"T5", "a">>, <<"T5", "c">>}, FullRosterOf("T6")>>],
      [teams |-> <<"T1", "T2">>, stage |-> Stage1, match_format |-> BestOf5,
       full_rosters |-> <<FullRosterOf("T1"), FullRosterOf("T2")>>],
      [teams |-> <<"T8", "T9">>, stage |-> Stage2, match_format |-> Regular,
       full_rosters |-> <<FullRosterOf("T8"), {<<"T9", "c">>}>>]>>

\* Regular matches of the stage still to be played
OpenFixtures ==
    <<[teams |-> <<"T1", "T2">>, stage |-> Stage1, match_format |-> Regular,
       full_rosters |-> <<FullRosterOf("T1"), FullRosterOf("T2")>>],
      [teams |-> <<"T3", "T6">>, stage |-> Stage1, match_format |-> Regular,
       full_rosters |-> <<FullRosterOf("T3"), FullRosterOf("T6")>>]>>

\* The lists a caller may pass of them: none, or one of the two
OpenLists == {<<>>} \cup {<<OpenFixtures[i]>> : i \in DOMAIN OpenFixtures}

\* The lists a caller may pass: the fixtures at any set of indices
MatchLists == {Survivors(Fixtures, idx) : idx \in SUBSET (DOMAIN Fixtures)}

\* The completed matches of the history:
\* (team1, team2, score1, score2, drawn maps)
Results ==
    <<<<"T1", "T2", 4, 0, 0>>, <<"T1", "T3", 4, 0, 0>>, <<"T1", "T4", 4, 0, 0>>,
      <<"T1", "T5", 4, 0, 0>>, <<"T2", "T3", 4, 0, 0>>, <<"T2", "T4", 4, 0, 0>>,
      <<"T2", "T6", 3, 1, 0>>, <<"T3", "T4", 3, 0, 1>>, <<"T4", "T6", 4, 0, 0>>,
      <<"T5", "T6", 3, 0, 1>>, <<"T7", "T8", 3, 2, 0>>, <<"T8", "T9", 3, 2, 0>>,
      <<"T9", "T7", 3, 2, 0>>>>

\* The games of one completed match: the drawn maps, then the loser's, then
\* the winner's
RECURSIVE GamesOfResult(_, _, _)
GamesOfResult(mid, r, n) ==
    IF n > r[3] + r[4] + r[5] THEN <<>>
    ELSE <<[match_id |-> mid, teams |-> <<r[1], r[2]>>, stage |-> Stage1,
            match_format |-> Regular,
            score |-> IF n <= r[5] THEN <<1, 1>>
                      ELSE IF n <= r[5] + r[4] THEN <<0, 1>>
                      ELSE <<1, 0>>,
            full_rosters |-> <<FullRosterOf(r[1]), FullRosterOf(r[2])>>]>> \o
         GamesOfResult(mid, r, n + 1)

RECURSIVE GamesFrom(_)
GamesFrom(mid) ==
    IF mid > Len(Results) THEN <<>>
    ELSE GamesOfResult(mid, Results[mid], 1) \o GamesFrom(mid + 1)

\* The games of the stage played so far
History == GamesFrom(1)

\* The title matches that follow the stage:
\* (team1, team2, score1, score2), a best-of-5 each
TitleResults ==
    <<<<"T2", "T3", 3, 1>>, <<"T1", "T4", 3, 0>>, <<"T1", "T2", 3, 0>>>>

\* The games of one title match: the loser's, then the winner's
RECURSIVE TitleGamesOfResult(_, _, _)
TitleGamesOfResult(mid, r, n) ==
    IF n > r[3] + r[4] THEN <<>>
    ELSE <<[match_id |-> mid, teams |-> <<r[1], r[2]>>, stage |-> Stage1Title,
            match_format |-> BestOf5,
            score |-> IF n <= r[4] THEN <<0, 1>> ELSE <<1, 0>>,
            full_rosters |-> <<FullRosterOf(r[1]), FullRosterOf(r[2])>>]>> \o
         TitleGamesOfResult(mid, r, n + 1)

RECURSIVE TitleGamesFrom(_)
TitleGamesFrom(k) ==
    IF k > Len(TitleResults) THEN <<>>
    ELSE TitleGamesOfResult(Len(Results) + k, TitleResults[k], 1) \o
         TitleGamesFrom(k + 1)

\* The games of the stage and of its title matches
TitleHistory == History \o TitleGamesFrom(1)

\* train_games(games): the next game of the list
train_games(games) ==
    /\ ps_pc = "idle"
    /\ games_fed < Len(games)
    /\ Train(games[games_fed + 1])
    /\ UNCHANGED rtVars

\* `for match in matches: for team, full_roster in zip(...)` on the copy of
\* last_full_rosters
RECURSIVE SetRosters(_, _, _)
SetRosters(fr, ms, i) ==
    IF i > Len(ms) THEN fr
    ELSE SetRosters(update_rosters(fr, ms[i]), ms, i + 1)

\* The entries _p_wins leaves in that copy, a defaultdict(set): it reads
\* full_rosters[team] for every team.
ReadAll(fr) ==
    [team \in (DOMAIN fr) \cup TeamSet |->
        IF team \in DOMAIN fr THEN fr[team] ELSE {}]

\* predict_stage(matches) up to the loop of _predict_stage
predict_stage(ms, pu, pd) ==
    /\ ps_pc = "idle"
    /\ games_fed >= Len(History)
    /\ ps_pc' = "trials"
    /\ matches' = SelectSeq(ms, LAMBDA match : match.stage = stage /\
                                               match.match_format = Regular)
    /\ iter' = 0
    /\ scores_list' = match_scores(matches', pu, pd)
    /\ sim_full_rosters' = ReadAll(SetRosters(last_full_rosters, matches', 1))
    /\ last_full_rosters' = KeptAfterCopy(last_full_rosters, sim_full_rosters')
    /\ title_count' = [team \in TeamSet |-> 0]
    /\ top1_count' = [team \in TeamSet |-> 0]
    /\ UNCHANGED <<sim_wins, sim_map_diffs, sim_head_to_head_map_diffs,
                   sim_teams, seeds, prediction>>
    /\ UNCHANGED <<rtVars, boVars, seasonVars, stageVars, matchVars, obsVars>>

\* One iteration of `for _ in range(iters)`
Trial ==
    /\ ps_pc = "trials"
    /\ iter < Iters
    /\ iter' = iter + 1
    /\ \E f \in Samples(scores_list) :
         \E l \in {PlayAll([wins |-> stage_wins, map_diffs |-> stage_map_diffs,
                            head_to_head_map_diffs |->
                                stage_head_to_head_map_diffs],
                           matches, f, 1)} :
            /\ sim_wins' = l.wins
            /\ sim_map_diffs' = l.map_diffs
            /\ sim_head_to_head_map_diffs' = l.head_to_head_map_diffs
            /\ stage_wins' = KeptAfterCopy(stage_wins, l.wins)
            /\ stage_map_diffs' = KeptAfterCopy(stage_map_diffs, l.map_diffs)
            /\ stage_head_to_head_map_diffs' =
                   KeptAfterCopy(stage_head_to_head_map_diffs,
                                 l.head_to_head_map_diffs)
            /\ \E ranked \in stage_standings(l.wins, l.map_diffs,
                                             l.head_to_head_map_diffs) :
                 /\ sim_teams' = ranked
                 /\ seeds' = SelectSeeds(ranked)
                 /\ title_count' = [team \in TeamSet |->
                                       title_count[team] + Count(seeds', team)]
                 /\ \E top1 \in Top1(seeds') :
                        top1_count' = [top1_count EXCEPT ![top1] = @ + 1]
    /\ UNCHANGED <<ps_pc, matches, sim_full_rosters, scores_list, prediction>>
    /\ UNCHANGED <<rtVars, boVars, seasonVars, matchVars, obsVars, rosterVars>>
    /\ UNCHANGED <<stage, base_stage, stage_losses, stage_title_wins,
                   stage_title_losses, playoff_wins, playoff_losses>>

\* The end of _predict_stage and "Normalize 0% and 100% for predictions."
predict_stage_return ==
    /\ ps_pc = "trials"
    /\ iter = Iters
    /\ ps_pc' = "returned"
    /\ \E min_wins \in {[team \in TeamSet |->
                             <<Get(stage_wins, team),
                               Get(stage_map_diffs, team) -
                               4 * Appearances(matches, team)>>]},
          max_wins_ \in {[team \in TeamSet |->
                              <<Get(stage_wins, team) +
                                Appearances(matches, team),
                                Get(stage_map_diffs, team) +
                                4 * Appearances(matches, team)>>]} :
         \E min_8th_wins \in {NthLargest(min_wins, 8)},
            max_9th_wins \in {NthLargest(max_wins_, 9)} :
           \E out \in {{team \in TeamSet :
                           TupleLt(max_wins_[team], min_8th_wins)}} :
             \E in \in {{team \in TeamSet \ out :
                            TupleGt(min_wins[team], max_9th_wins)}} :
               /\ prediction' =
                     [team \in TeamSet |->
                         IF team \in out THEN <<False, False>>
                         ELSE IF team \in in
                         THEN <<True,
                                IF Get(stage_title_losses, team) > 0 THEN False
                                ELSE IF stage_finished(stage_title_losses)
                                THEN True
                                ELSE Ratio(top1_count[team])>>
                         ELSE <<Ratio(title_count[team]),
                                Ratio(top1_count[team])>>]
               /\ stage_wins' = Touch(stage_wins, TeamSet)
               /\ stage_map_diffs' = Touch(stage_map_diffs, TeamSet)
               /\ stage_title_losses' = Touch(stage_title_losses, in)
    /\ UNCHANGED <<matches, iter, sim_full_rosters, scores_list, sim_wins,
                   sim_map_diffs,
                   sim_head_to_head_map_diffs, sim_teams, seeds,
                   title_count, top1_count>>
    /\ UNCHANGED <<rtVars, boVars, seasonVars, matchVars, obsVars, rosterVars>>
    /\ UNCHANGED <<stage, base_stage, stage_losses,
                   stage_head_to_head_map_diffs, stage_title_wins,
                   playoff_wins, playoff_losses>>

PsInit ==
    /\ ps_pc = "idle"
    /\ matches = <<>>
    /\ iter = 0
    /\ sim_full_rosters = EmptyDict
    /\ scores_list = <<>>
    /\ sim_wins = EmptyDict
    /\ sim_map_diffs = EmptyDict
    /\ sim_head_to_head_map_diffs = EmptyDict
    /\ sim_teams = <<>>
    /\ seeds = <<>>
    /\ title_count = EmptyDict
    /\ top1_count = EmptyDict
    /\ prediction = EmptyDict

TrainHistory == train_games(History)

TrainTitleHistory == train_games(TitleHistory)

PredictOpenCall ==
    \E ms \in OpenLists, pu \in OpenUndrawable, pd \in OpenDrawable :
        predict_stage(ms, pu, pd)

PredictStageCall ==
    \E ms \in MatchLists, pu \in OpenUndrawable, pd \in OpenDrawable :
        predict_stage(ms, pu, pd)

\* One iteration of `for _ in range(iters)` up to "Determine top 1 teams."
DetermineSeeds ==
    /\ ps_pc = "trials"
    /\ iter < Iters
    /\ ps_pc' = "first round"
    /\ \E f \in Samples(scores_list) :
         \E l \in {PlayAll([wins |-> stage_wins, map_diffs |-> stage_map_diffs,
                            head_to_head_map_diffs |->
                                stage_head_to_head_map_diffs],
                           matches, f, 1)} :
            /\ sim_wins' = l.wins
            /\ sim_map_diffs' = l.map_diffs
            /\ sim_head_to_head_map_diffs' = l.head_to_head_map_diffs
            /\ stage_wins' = KeptAfterCopy(stage_wins, l.wins)
            /\ stage_map_diffs' = KeptAfterCopy(stage_map_diffs, l.map_diffs)
            /\ stage_head_to_head_map_diffs' =
                   KeptAfterCopy(stage_head_to_head_map_diffs,
                                 l.head_to_head_map_diffs)
            /\ \E ranked \in stage_standings(l.wins, l.map_diffs,
                                             l.head_to_head_map_diffs) :
                 /\ sim_teams' = ranked
                 /\ seeds' = SelectSeeds(ranked)
                 /\ title_count' = [team \in TeamSet |->
                                       title_count[team] + Count(seeds', team)]
    /\ UNCHANGED <<iter, top1_count>>
    /\ UNCHANGED <<matches, sim_full_rosters, scores_list, prediction>>
    /\ UNCHANGED <<rtVars, boVars, seasonVars, matchVars, obsVars, rosterVars>>
    /\ UNCHANGED <<stage, base_stage, stage_losses, stage_title_wins,
                   stage_title_losses, playoff_wins, playoff_losses>>

\* What a round of the bracket leaves alone
RoundFrame ==
    /\ UNCHANGED <<matches, sim_full_rosters, scores_list, sim_wins,
                   sim_map_diffs, sim_head_to_head_map_diffs, sim_teams,
                   title_count, prediction>>
    /\ UNCHANGED <<rtVars, boVars, seasonVars, stageVars, matchVars, obsVars,
                   rosterVars>>

\* "First round." up to `seeds = [team for team in seeds if team is not None]`
PlayFirstRound ==
    /\ ps_pc = "first round"
    /\ ps_pc' = "semi-finals"
    /\ seeds' \in FirstRound(seeds)
    /\ UNCHANGED <<iter, top1_count>>
    /\ RoundFrame

\* "Semi-finals." up to the rebuilt list
PlaySemiFinals ==
    /\ ps_pc = "semi-finals"
    /\ ps_pc' = "finals"
    /\ seeds' \in SemiFinals(seeds)
    /\ UNCHANGED <<iter, top1_count>>
    /\ RoundFrame

\* "Finals." and `top1_count[seeds[0]] += 1`, the end of the iteration
PlayFinals ==
    /\ ps_pc = "finals"
    /\ ps_pc' = "trials"
    /\ seeds' \in Finals(seeds)
    /\ top1_count' = [top1_count EXCEPT ![seeds'[1]] = @ + 1]
    /\ iter' = iter + 1
    /\ RoundFrame

----------------------------------------------------------------------------
(* Single-game predictors *)

\* Significand width of the floating-point numbers of the model
Precision == 3

\* A float in [0, 1] is an integer count of steps of 2^-(Precision + 1): the
\* grid on which 0.5 + a and 0.5 - a are exact before they are rounded.
FOne == 2 ^ (Precision + 1)

FHalf == FOne \div 2

RECURSIVE BitLen(_)
BitLen(x) == IF x = 0 THEN 0 ELSE 1 + BitLen(x \div 2)

\* Round to nearest, ties to even, to Precision significant bits
RoundAbs(x) ==
    IF BitLen(x) <= Precision THEN x
    ELSE LET q == 2 ^ (BitLen(x) - Precision)
             lo == (x \div q) * q
             r == x - lo
         IN IF 2 * r < q THEN lo
            ELSE IF 2 * r > q THEN lo + q
            ELSE IF (x \div q) % 2 = 0 THEN lo ELSE lo + q

Round(x) == IF x < 0 THEN 0 - RoundAbs(0 - x) ELSE RoundAbs(x)

\* float + float and float - float
FAdd(a, b) == Round(a + b)

FSub(a, b) == Round(a - b)

\* The floats of [0, 1/2]: the values of alpha and beta
Margins == {a \in 0..FHalf : Round(a) = a}

\* <<alpha, beta>> of a SimplePredictor: beta is 0.0, as by default, or alpha
MarginPairs == {<<a, b>> \in Margins \X Margins : b \in {0, a}}

\* SimplePredictor.predict without its `record == 0` branch
simple_predict_NoLevelRecord(md, h2h, teams, alpha, beta) ==
    LET diff1 == Get(md, teams[1])
        diff2 == Get(md, teams[2])
        record == Get(h2h, teams)
    IN IF diff1 > diff2 THEN <<FAdd(FHalf, alpha), 0>>
       ELSE IF diff1 = diff2
       THEN IF record > 0 THEN <<FAdd(FHalf, beta), 0>>
            ELSE <<FSub(FHalf, beta), 0>>
       ELSE <<FSub(FHalf, alpha), 0>>

\* SimplePredictor.predict on map_diffs md and head_to_head_map_diffs h2h
simple_predict(md, h2h, teams, alpha, beta) ==
    LET diff1 == Get(md, teams[1])
        diff2 == Get(md, teams[2])
        record == Get(h2h, teams)
    IN IF diff1 > diff2 THEN <<FAdd(FHalf, alpha), 0>>
       ELSE IF diff1 = diff2
       THEN IF record > 0 THEN <<FAdd(FHalf, beta), 0>>
            ELSE IF record = 0 THEN <<FHalf, 0>>
            ELSE <<FSub(FHalf, beta), 0>>
       ELSE <<FSub(FHalf, alpha), 0>>

\* env.create_rating(): the prior <<mu, sigma>> a missing name reads
Prior == <<3, 1>>

\* self.ratings[name]
RatingOf(rs, name) == IF name \in DOMAIN rs THEN rs[name] ELSE Prior

\* [self.ratings[name] for name in roster]
RatingsOf(rs, roster) == [i \in DOMAIN roster |-> RatingOf(rs, roster[i])]

RECURSIVE SumMu(_)
\* sum(r.mu for r in rl)
SumMu(rl) == IF rl = <<>> THEN 0 ELSE rl[1][1] + SumMu(Tail(rl))

RECURSIVE SumVar(_)
\* sum(r.sigma**2 for r in rl)
SumVar(rl) == IF rl = <<>> THEN 0 ELSE rl[1][2] * rl[1][2] + SumVar(Tail(rl))

\* env.beta ** 2
BetaSq == 4

\* calc_draw_margin(draw_probability, size) of the trueskill package: 0 for a
\* draw probability of 0, and growing with size otherwise
calc_draw_margin(drawable, size) == IF drawable THEN size \div 4 ELSE 0

\* env.cdf(n / sqrt(v)) of the trueskill package: an increasing function of
\* n with cdf(-x) = 1 - cdf(x), returned as the nearest float
cdf(n, v) ==
    LET g == (FHalf * n * n) \div (n * n + v)
    IN Round(IF n < 0 THEN FHalf - g ELSE FHalf + g)

\* TrueSkillPredictor.predict after _teams_ratings; denom2 is denom squared
predict(team1_ratings, team2_ratings, drawable) ==
    LET size == Len(team1_ratings) + Len(team2_ratings)
        delta_mu == SumMu(team1_ratings) - SumMu(team2_ratings)
        draw_margin == calc_draw_margin(drawable, size)
        sum_sigma == SumVar(team1_ratings \o team2_ratings)
        denom2 == size * BetaSq + sum_sigma
        p_win == cdf(delta_mu - draw_margin, denom2)
        p_not_loss == cdf(delta_mu + draw_margin, denom2)
    IN <<p_win, FSub(p_not_loss, p_win)>>

\* a - 3 * sqrt(x) < b - 3 * sqrt(y) for integers a, b and x, y >= 0, decided
\* by squaring
KeyLt(a, x, b, y) ==
    LET D == a - b
        E == 9 * x - 9 * y - D * D
    IN IF D < 0 /\ 9 * y < D * D THEN TRUE
       ELSE IF D >= 0 THEN E > 0 /\ 36 * D * D * y < E * E
       ELSE E > 0 \/ 36 * D * D * y > E * E

\* Rating(mu = sum_mu / 6.0, sigma = sqrt(sum_sq) / 6.0) kept as its two sums
RosterSums(rl) == <<"roster", SumMu(rl), SumVar(rl)>>

\* _roster_rating(roster)
roster_rating(rs, roster) == RosterSums(RatingsOf(rs, roster))

\* rating.mu - 3.0 * rating.sigma of k1 is below that of k2
MinRatingLt(k1, k2) == KeyLt(k1[2], k1[3], k2[2], k2[3])

\* _min_roster_rating(r1) < _min_roster_rating(r2)
RosterLt(rs, r1, r2) == MinRatingLt(roster_rating(rs, r1), roster_rating(rs, r2))

\* _min_rating(name)
min_rating(rs, name) == RatingOf(rs, name)[1] - 3 * RatingOf(rs, name)[2]

\* self.roster_queues[team]
QueueOf(rq, team) == IF team \in DOMAIN rq THEN rq[team] ELSE <<>>

\* all(name in full_roster for name in roster)
Eligible(roster, full_roster) ==
    \A i \in DOMAIN roster : roster[i] \in full_roster

\* Where the roster at position i of q stands in
\* sorted(q, key=_min_roster_rating, reverse=True): behind the rosters of
\* larger key and, the sort being stable, behind the earlier ones of equal key
RankIn(rs, q, i) ==
    1 + Cardinality({j \in DOMAIN q :
                        \/ RosterLt(rs, q[i], q[j])
                        \/ j < i /\ ~RosterLt(rs, q[j], q[i])})

\* sorted(q, key=_min_roster_rating, reverse=True)
SortedRosters(rs, q) ==
    [r \in DOMAIN q |-> q[CHOOSE i \in DOMAIN q : RankIn(rs, q, i) = r]]

RECURSIVE SortedMembers(_, _)
\* sorted(full_roster, key=_min_rating, reverse=True): full_roster is a set,
\* whose iteration order decides among members of equal key
SortedMembers(rs, S) ==
    IF S = {} THEN {<<>>}
    ELSE LET top == {m \in S : \A n \in S : min_rating(rs, n) <= min_rating(rs, m)}
         IN UNION {{<<m>> \o t : t \in SortedMembers(rs, S \ {m})} : m \in top}

\* sorted_members[:6]
FirstSix(l) == SubSeq(l, 1, IF Len(l) < 6 THEN Len(l) ELSE 6)

\* The positions of the rosters of a list that full_roster covers
EligibleIn(rosters, full_roster) ==
    {i \in DOMAIN rosters : Eligible(rosters[i], full_roster)}

\* `for roster in rosters: if all(...): best_roster = roster; break`, ok
\* being the positions of the eligible rosters, and the best six members
\* when the loop finds none
FirstEligible(rs, rosters, ok, full_roster) ==
    IF ok # {}
    THEN {rosters[CHOOSE i \in ok : \A j \in ok : i <= j]}
    ELSE {FirstSix(l) : l \in SortedMembers(rs, full_roster)}

\* The loop of _best_roster over the rosters in the order given
PickRoster(rs, rosters, full_roster) ==
    FirstEligible(rs, rosters, EligibleIn(rosters, full_roster), full_roster)

\* _best_roster that takes the most recent eligible roster of the queue
best_roster_MostRecent(rs, rq, team, full_roster) ==
    PickRoster(rs, QueueOf(rq, team), full_roster)

\* _best_roster: the rosters it can return
best_roster(rs, rq, team, full_roster) ==
    PickRoster(rs, SortedRosters(rs, QueueOf(rq, team)), full_roster)

\* The players of team T1 and the rosters it fields
PoolT1 == {"a1", "a2", "a3", "a4", "a5", "a6", "a7"}

RostersT1 ==
    {<<"a1", "a2", "a3", "a4", "a5", "a6">>,
     <<"a2", "a3", "a4", "a5", "a6", "a7">>}

\* The players of team T2
RosterT2 == <<"b1", "b2", "b3", "b4", "b5", "b6">>

PoolT2 == {RosterT2[i] : i \in DOMAIN RosterT2}

\* A game of match 1 with the rosters that played it
RatedGame(sc, roster1) ==
    [match_id |-> 1, teams |-> Schedule[1].teams, stage |-> Schedule[1].stage,
     match_format |-> Schedule[1].match_format, score |-> sc,
     rosters |-> <<roster1, RosterT2>>,
     full_rosters |-> <<PoolT1, PoolT2>>]

\* Contents of initial_ratings.json
InitialRatings ==
    {[n \in {"a7", "a8", "a9", "a10"} |->
         IF n = "a7" THEN <<6, 2>> ELSE IF n = "a8" THEN <<5, 1>>
         ELSE IF n = "a9" THEN <<2, 1>> ELSE <<7, 2>>],
     [n \in {"a1", "a8", "a9", "a10"} |->
         IF n = "a1" THEN <<4, 1>> ELSE IF n = "a8" THEN <<5, 1>>
         ELSE IF n = "a9" THEN <<2, 1>> ELSE <<1, 0>>]}

\* self.ratings[name] read for every name of ns: a missing name is inserted
\* with the prior
ReadRatings(rs, ns) ==
    [n \in (DOMAIN rs) \cup ns |-> RatingOf(rs, n)]

\* The players of the rosters of a queue
PlayersOf(q) == UNION {{q[i][j] : j \in DOMAIN q[i]} : i \in DOMAIN q}

\* env.rate(teams_ratings, ranks) of the trueskill package, kept to its
\* direction: a winner gains and a loser drops by the variance of the rating,
\* a draw moves nothing
rate(rl, won, lost) ==
    [i \in DOMAIN rl |->
        IF won THEN <<rl[i][1] + rl[i][2] * rl[i][2], rl[i][2]>>
        ELSE IF lost THEN <<rl[i][1] - rl[i][2] * rl[i][2], rl[i][2]>>
        ELSE rl[i]]

\* `for name, rating in zip(roster, ratings): self.ratings[name] = rating`
SetRatings(rs, roster, rl) ==
    [n \in (DOMAIN rs) \cup {roster[i] : i \in DOMAIN roster} |->
        IF \E i \in DOMAIN roster : roster[i] = n
        THEN rl[CHOOSE i \in DOMAIN roster : roster[i] = n]
        ELSE rs[n]]

\* ratings_history[match_key] after `ratings[name] = self.ratings[name]` for
\* the names of full_roster and `ratings[team] = rating`
HistoryEntry(old, rs, team, full_roster, rating) ==
    [n \in (DOMAIN old) \cup full_roster \cup {team} |->
        IF n = team THEN rating
        ELSE IF n \in full_roster THEN rs[n] ELSE old[n]]

\* self.ratings_history[match_key], {} when the key is new
EntryOf(rh, match_key) ==
    IF match_key \in DOMAIN rh THEN rh[match_key] ELSE EmptyDict

\* The body of _record_team_ratings on the ratings rs it has read
Recorded(R, rs, match_key, team, full_roster, br, rating) ==
    [ratings |-> Put(rs, team, rating),
     best_rosters |-> Put(R.best_rosters, team, br),
     ratings_history |->
         Put(R.ratings_history, match_key,
             HistoryEntry(EntryOf(R.ratings_history, match_key), rs, team,
                          full_roster, rating))]

\* _record_team_ratings(team, full_roster) and the assignment of its result
\* to self.ratings[team], on R = [ratings, best_rosters, ratings_history]
\* with the ratings of the full roster and of the queued rosters read; br is
\* the roster _best_roster returns
record_team_ratings(R, stg, mh, team, full_roster, br) ==
    Recorded(R, R.ratings, <<stg, Len(mh[stg][team])>>, team, full_roster, br,
             roster_rating(R.ratings, br))

\* deque.appendleft(roster) on a deque(maxlen=12)
appendleft(q, roster) ==
    SubSeq(<<roster>> \o q, 1, IF Len(q) < QueueLen THEN Len(q) + 1 ELSE QueueLen)

\* _update_rosters, the part kept in roster_queues
update_roster_queues(rq, game) ==
    Put(Put(rq, game.teams[1], appendleft(QueueOf(rq, game.teams[1]), game.rosters[1])),
        game.teams[2], appendleft(QueueOf(rq, game.teams[2]), game.rosters[2]))

\* _train up to env.rate: the ratings of the players of both rosters are
\* read, and those of the first roster replaced
Rated(rs, roster, won, lost) ==
    SetRatings(rs, roster, rate(RatingsOf(rs, roster), won, lost))

\* PlayerTrueSkillPredictor.__init__: the ratings of initial_ratings.json
LoadRatings ==
    /\ rt_pc = "new"
    /\ games_fed = 0
    /\ rt_pc' = "loaded"
    /\ \E file \in InitialRatings : ratings' = file
    /\ UNCHANGED <<roster_queues, best_rosters, ratings_history>>
    /\ UNCHANGED <<boVars, trVars, psVars>>

\* PlayerTrueSkillPredictor.train(game): _update_rosters, _update_standings
\* and _train with _update_teams_ratings, one team after the other
PlayerTrain(game) ==
    /\ rt_pc = "loaded"
    /\ games_fed < MaxGames
    /\ Train(game)
    /\ rt_pc' = rt_pc
    /\ roster_queues' = update_roster_queues(roster_queues, game)
    /\ \E won1 \in {game.score[1] > game.score[2]},
          won2 \in {game.score[1] < game.score[2]},
          players \in {PlayersOf(roster_queues'[game.teams[1]])
                           \cup PlayersOf(roster_queues'[game.teams[2]])
                           \cup game.full_rosters[1]
                           \cup game.full_rosters[2]} :
       \E rs0 \in {ReadRatings(ratings, players)} :
       \E new2 \in {rate(RatingsOf(rs0, game.rosters[2]), won2, won1)} :
       \E R0 \in {[ratings |-> Rated(rs0, game.rosters[1], won1, won2),
                   best_rosters |-> best_rosters,
                   ratings_history |-> ratings_history]} :
       \E br1 \in best_roster(R0.ratings, roster_queues', game.teams[1],
                              game.full_rosters[1]) :
       \E R1 \in {record_team_ratings(R0, stage', match_history', game.teams[1],
                                      game.full_rosters[1], br1)} :
       \E R2 \in {[R1 EXCEPT !.ratings =
                       SetRatings(R1.ratings, game.rosters[2], new2)]} :
       \E br2 \in best_roster(R2.ratings, roster_queues', game.teams[2],
                              game.full_rosters[2]) :
       \E R3 \in {record_team_ratings(R2, stage', match_history', game.teams[2],
                                      game.full_rosters[2], br2)} :
           /\ ratings' = R3.ratings
           /\ best_rosters' = R3.best_rosters
           /\ ratings_history' = R3.ratings_history

RtInit ==
    /\ rt_pc = "new"
    /\ ratings = EmptyDict
    /\ roster_queues = EmptyDict
    /\ best_rosters = EmptyDict
    /\ ratings_history = EmptyDict

TrainRated ==
    \E sc \in GameScores, roster1 \in RostersT1 :
        PlayerTrain(RatedGame(sc, roster1))

\* SimplePredictor.train(game) on the games that move what its predict
\* reads: the games of the regular matches
TrainSimple ==
    \E mid \in {m \in DOMAIN Schedule : Schedule[m].match_format = Regular},
       sc \in GameScores :
        UpdateStandings(GameOf(mid, sc))

----------------------------------------------------------------------------
(* Specifications *)

\* A freshly constructed predictor, no call in progress
Init ==
    /\ BoInit
    /\ TrackerInit
    /\ PsInit
    /\ RtInit

\* predict_match_score calls
BoNext ==
    \/ BoCall
    \/ BoGame
    \/ BoTieBreak
    \/ BoMerge

SpecBo == Init /\ [][BoNext]_vars

\* a feed of completed games through _update_standings
TrackNext ==
    \/ TrainGame

SpecTrack == Init /\ [][TrackNext]_vars

\* a trained predictor asked for one stage prediction
StageNext ==
    \/ TrainHistory
    \/ PredictStageCall
    \/ Trial
    \/ predict_stage_return

SpecStage == Init /\ [][StageNext]_vars

\* a trained predictor asked for one stage prediction with a regular match of
\* the stage still to be played
OpenNext ==
    \/ TrainHistory
    \/ PredictOpenCall
    \/ Trial
    \/ predict_stage_return

SpecOpen == Init /\ [][OpenNext]_vars

\* a predictor trained up to some game of the title matches and asked for one
\* stage prediction
TitleNext ==
    \/ TrainTitleHistory
    \/ PredictStageCall
    \/ Trial
    \/ predict_stage_return

SpecTitle == Init /\ [][TitleNext]_vars

\* a trained predictor asked for one stage prediction, the iteration taken
\* round by round
BracketNext ==
    \/ TrainHistory
    \/ PredictStageCall
    \/ DetermineSeeds
    \/ PlayFirstRound
    \/ PlaySemiFinals
    \/ PlayFinals
    \/ predict_stage_return

SpecBracket == Init /\ [][BracketNext]_vars

\* a predictor of either class fed completed games: a SimplePredictor, which
\* keeps the standings only, or a PlayerTrueSkillPredictor
RateNext ==
    \/ TrainSimple
    \/ LoadRatings
    \/ TrainRated

SpecRate == Init /\ [][RateNext]_vars

----------------------------------------------------------------------------
(* Claims about the score-distribution builder (checked under SpecBo) *)

SupportedNames == {Preseason, Regular, BestOf5, BestOf7}

Level(s) == s[1] = s[2]

\* C1: for every format the builder accepts and every per-game
\* probabilities (p_draw = 0 for the undrawable game), the mass is conserved:
\* while the games are played the live and the finished mass add up to 1, and
\* the returned distribution sums to exactly 1.
C1_MassConserved ==
    /\ bo_pc \in {"loop", "merge"} =>
           SumValues(p_scores) + SumValues(p_finished_scores) = One
    /\ bo_pc = "done" => SumValues(p_scores) = One

\* A regular match with draws possible returned: mass went through the
\* finished accumulator (4-0) and through the tie-break game (3-2).
C1_Witness ==
    /\ bo_pc = "done"
    /\ match_format = Regular
    /\ p_drawable[1] > 0 /\ p_drawable[2] > 0
    /\ p_undrawable[1] > 0 /\ p_undrawable[1] < Den
    /\ Get(p_scores, <<4, 0>>) > 0
    /\ Get(p_scores, <<3, 2>>) > 0

\* C7 (as claimed): every call whose format is not exactly one of the four
\* supported names ends in NotImplementedError.
C7_OnlyFourNamesAccepted ==
    (bo_pc # "idle" /\ match_format \notin SupportedNames) => bo_pc = "raised"

RECURSIVE Binomial(_, _)
Binomial(n, r) ==
    IF r = 0 \/ r = n THEN 1
    ELSE Binomial(n - 1, r - 1) + Binomial(n - 1, r)

RECURSIVE Pow(_, _)
Pow(b, e) == IF e = 0 THEN 1 ELSE b * Pow(b, e - 1)

\* C(k-1+j, j) * p^k * q^j as a numerator over One, p = a/Den, q = b/Den
NegBinomial(k, j, a, b) ==
    Binomial(k - 1 + j, j) * Pow(a, k) * Pow(b, j) * Pow(Den, 8 - k - j)

ClinchOf(fmt) == IF fmt = BestOf5 THEN 3 ELSE 4

ClinchScores(k) == {<<k, j>> : j \in 0..(k - 1)} \cup {<<j, k>> : j \in 0..(k - 1)}

\* C8: best-of-5 (k = 3) and best-of-7 (k = 4) return exactly the clinch
\* scores (k, j), (j, k), j < k, with P(k, j) = C(k-1+j, j) p^k q^j and
\* P(j, k) = C(k-1+j, j) q^k p^j; a live branch never holds k wins.
C8_BestOfDistribution ==
    match_format \in {BestOf5, BestOf7} =>
        LET k == ClinchOf(match_format)
            a == p_undrawable[1]
            b == Den - p_undrawable[1]
        IN /\ bo_pc = "loop" =>
                  \A s \in DOMAIN p_scores : s[1] < k /\ s[2] < k
           /\ bo_pc = "done" =>
                  /\ DOMAIN p_scores \subseteq ClinchScores(k)
                  /\ \A j \in 0..(k - 1) :
                        /\ Get(p_scores, <<k, j>>) = NegBinomial(k, j, a, b)
                        /\ Get(p_scores, <<j, k>>) = NegBinomial(k, j, b, a)
                  /\ (a > 0 /\ b > 0) =>
                        {s \in DOMAIN p_scores : p_scores[s] > 0} = ClinchScores(k)

\* A best-of-5 returned with 0 < p < 1: 3-0 carries p^3 and 2-3 is reached.
C8_Witness ==
    /\ bo_pc = "done"
    /\ match_format = BestOf5
    /\ p_undrawable[1] > 0 /\ p_undrawable[1] < Den
    /\ Get(p_scores, <<3, 0>>) = Pow(p_undrawable[1], 3) * Pow(Den, 5)
    /\ Get(p_scores, <<2, 3>>) > 0

ScoreGrid == (0..5) \X (0..5)

\* What the tie-break step must do to the live distribution ps.
TieBroken(ps, s) ==
    IF Level(s) THEN 0
    ELSE Get(ps, s)
         + (IF s[1] = s[2] + 1
            THEN Mul(Get(ps, <<s[2], s[2]>>), p_undrawable[1]) ELSE 0)
         + (IF s[2] = s[1] + 1
            THEN Mul(Get(ps, <<s[1], s[1]>>),
                     Den - p_undrawable[1] - p_undrawable[2]) ELSE 0)

\* C9: the tie-break step moves the mass of every level live score (a, a)
\* onto (a+1, a) with the undrawable p_win and onto (a, a+1) with the
\* undrawable p_loss and leaves the other live scores unchanged; the
\* returned distribution holds no level score.
C9_TieBreakClearsLevel ==
    [][ /\ (bo_pc = "loop" /\ bo_pc' = "merge") =>
               /\ \A s \in ScoreGrid : Get(p_scores', s) = TieBroken(p_scores, s)
               /\ \A s \in DOMAIN p_scores' : ~Level(s)
        /\ bo_pc' = "done" => \A s \in DOMAIN p_scores' : ~Level(s)
      ]_vars

\* A regular match about to be merged whose tie-break game just moved
\* mass from 2-2 and 1-1 while 3-1 stayed live.
C9_Witness ==
    /\ bo_pc = "merge"
    /\ match_format = Regular
    /\ p_drawable[2] > 0
    /\ Get(p_scores, <<3, 2>>) > 0
    /\ Get(p_scores, <<1, 2>>) > 0
    /\ Get(p_scores, <<3, 1>>) > 0

----------------------------------------------------------------------------
(* Claims about the standings tracker (checked under SpecTrack) *)

FeedTeams == {"T1", "T2", "T3"}

\* The match self.score belongs to
Current == Schedule[match_id]

\* 1 when t has won more games of the current match than u, else 0
Ahead(t, u) == IF score[t] > score[u] THEN 1 ELSE 0

\* Wins and losses the current tally gives team t: the leader one win, the
\* trailer one loss, nobody anything while the tally is level.
WinsDue(t) ==
    IF t = Current.teams[1] THEN Ahead(Current.teams[1], Current.teams[2])
    ELSE IF t = Current.teams[2] THEN Ahead(Current.teams[2], Current.teams[1])
    ELSE 0

LossesDue(t) ==
    IF t = Current.teams[1] THEN Ahead(Current.teams[2], Current.teams[1])
    ELSE IF t = Current.teams[2] THEN Ahead(Current.teams[1], Current.teams[2])
    ELSE 0

\* The counter family a match books its result in
BooksSeason == Current.match_format = Regular
BooksTitle == ~BooksSeason /\ StrIn(Title, Current.stage)
BooksPlayoff == ~BooksSeason /\ ~BooksTitle /\ Current.match_format = Playoff

\* Change of counter d at team t since the tally was opened
Since(d, o, t) == Get(d, t) - Get(o, t)

\* With the games of one match fed one after another, every win/loss
\* counter is its value at the first game plus what the tally alone gives.
TallyDecidesCounters ==
    \A t \in FeedTeams :
        /\ Since(wins, opened.wins, t) = (IF BooksSeason THEN WinsDue(t) ELSE 0)
        /\ Since(losses, opened.losses, t) = (IF BooksSeason THEN LossesDue(t) ELSE 0)
        /\ Since(stage_wins, opened.stage_wins, t) =
               (IF BooksSeason THEN WinsDue(t) ELSE 0)
        /\ Since(stage_losses, opened.stage_losses, t) =
               (IF BooksSeason THEN LossesDue(t) ELSE 0)
        /\ Since(stage_title_wins, opened.stage_title_wins, t) =
               (IF BooksTitle THEN WinsDue(t) ELSE 0)
        /\ Since(stage_title_losses, opened.stage_title_losses, t) =
               (IF BooksTitle THEN LossesDue(t) ELSE 0)
        /\ Since(playoff_wins, opened.playoff_wins, t) =
               (IF BooksPlayoff THEN WinsDue(t) ELSE 0)
        /\ Since(playoff_losses, opened.playoff_losses, t) =
               (IF BooksPlayoff THEN LossesDue(t) ELSE 0)

\* Some counter family holds one more win of t and one more loss of u than
\* when the tally was opened.
CreditedOnce(t, u) ==
    \/ Since(wins, opened.wins, t) = 1 /\ Since(losses, opened.losses, u) = 1
    \/ /\ Since(stage_title_wins, opened.stage_title_wins, t) = 1
       /\ Since(stage_title_losses, opened.stage_title_losses, u) = 1
    \/ /\ Since(playoff_wins, opened.playoff_wins, t) = 1
       /\ Since(playoff_losses, opened.playoff_losses, u) = 1

\* C2 (as claimed): after any games of one match, in any order, the
\* win/loss counters depend on the tally alone, and the team with the
\* larger tally is credited exactly one win and the other exactly one loss,
\* whatever the format of the match.
C2_LeaderCreditedInEveryFormat ==
    match_id # NoMatch =>
        /\ TallyDecidesCounters
        /\ \A t \in FeedTeams, u \in FeedTeams :
               (WinsDue(t) = 1 /\ LossesDue(u) = 1) => CreditedOnce(t, u)

\* C2 (amended): after any games of one match, in any order, the win/loss
\* counters depend on the tally alone: the team with the larger tally holds
\* exactly one win and the other exactly one loss in each counter family the
\* match books (season and stage for 'regular'; stage title for any other
\* format in a stage whose name contains 'Title'; playoff for 'playoff'
\* elsewhere), and a match of any other format (preseason) books nothing.
C2_TallyDecidesWinLoss ==
    match_id # NoMatch => TallyDecidesCounters

\* A regular match at 1-2 after its three games went T1, T2, T2: the win
\* booked for T1 was reversed and T2 holds the win.
C2_Witness ==
    /\ match_id = 1
    /\ games_fed = 3
    /\ score["T1"] = 1 /\ score["T2"] = 2
    /\ Get(wins, "T2") = 1 /\ Get(losses, "T1") = 1
    /\ Get(wins, "T1") = 0 /\ "T1" \in DOMAIN wins

\* The stage of the game the step processes
FedStage == Schedule[match_id'].stage

Fed == games_fed' = games_fed + 1

AllZero(d) == \A k \in DOMAIN d : d[k] = 0

\* A genuinely new stage: not the current one and not an extension of its name
GenuinelyNew(stg) ==
    stg # stage /\ ~(stage # None /\ StartsWith(stg, stage))

\* An extension of the current stage's name: the title sub-phase
TitleEntry(stg) ==
    stg # stage /\ stage # None /\ StartsWith(stg, stage)

StageCountersZero(s) ==
    /\ AllZero(s.stage_wins)
    /\ AllZero(s.stage_losses)
    /\ AllZero(s.stage_map_diffs)
    /\ AllZero(s.stage_head_to_head_map_diffs)
    /\ AllZero(s.stage_title_wins)
    /\ AllZero(s.stage_title_losses)

PlayoffCountersZero(s) ==
    /\ AllZero(s.playoff_wins)
    /\ AllZero(s.playoff_losses)

\* C3 (as claimed): a game of a genuinely new stage finds, before it is
\* counted, every per-stage counter at zero (stage wins, losses, map
\* differential, head-to-head map differential, title wins/losses and playoff
\* wins/losses), and the current and the base stage are the new stage.
C3_NewStageResetsAll ==
    [][ (Fed /\ GenuinelyNew(FedStage)) =>
            /\ StageCountersZero(after_update_stage')
            /\ PlayoffCountersZero(after_update_stage')
            /\ after_update_stage'.stage = FedStage
            /\ after_update_stage'.base_stage = FedStage
            /\ stage' = FedStage
            /\ base_stage' = FedStage
      ]_vars

\* C4: a game whose stage name extends the current one leaves, in
\* _update_stage, every stage counter, every season counter and the playoff
\* counters as they were; the current stage becomes the new name and the base
\* stage the stage that was current.
C4_TitleEntryKeepsCounters ==
    [][ (Fed /\ TitleEntry(FedStage)) =>
            /\ after_update_stage'.stage_wins = stage_wins
            /\ after_update_stage'.stage_losses = stage_losses
            /\ after_update_stage'.stage_map_diffs = stage_map_diffs
            /\ after_update_stage'.stage_head_to_head_map_diffs =
                   stage_head_to_head_map_diffs
            /\ after_update_stage'.stage_title_wins = stage_title_wins
            /\ after_update_stage'.stage_title_losses = stage_title_losses
            /\ after_update_stage'.playoff_wins = playoff_wins
            /\ after_update_stage'.playoff_losses = playoff_losses
            /\ after_update_stage'.wins = wins
            /\ after_update_stage'.losses = losses
            /\ after_update_stage'.map_diffs = map_diffs
            /\ after_update_stage'.head_to_head_diffs = head_to_head_diffs
            /\ after_update_stage'.head_to_head_map_diffs = head_to_head_map_diffs
            /\ after_update_stage'.stage = FedStage
            /\ after_update_stage'.base_stage = stage
            /\ stage' = FedStage
            /\ base_stage' = stage
      ]_vars

\* The title matches of stage 1 were entered with a stage win on the books.
C4_Witness ==
    /\ stage = Stage1Title
    /\ base_stage = Stage1
    /\ match_id = 2
    /\ after_update_stage.stage = Stage1Title
    /\ Get(after_update_stage.stage_wins, "T1") = 1
    /\ Get(after_update_stage.stage_map_diffs, "T2") = 0 - 1
    /\ Get(stage_wins, "T1") = 1


----------------------------------------------------------------------------
(* Claims about the stage simulator (checked under SpecStage) *)

\* An iteration of the simulation loop has just ended in the primed state.
TrialStep == iter' = iter + 1

\* a is below b on wins, then map differential (the locals of the iteration)
BelowOnTotals(a, b) ==
    \/ Get(sim_wins, a) < Get(sim_wins, b)
    \/ /\ Get(sim_wins, a) = Get(sim_wins, b)
       /\ Get(sim_map_diffs, a) < Get(sim_map_diffs, b)

LevelOnTotals(a, b) ==
    /\ Get(sim_wins, a) = Get(sim_wins, b)
    /\ Get(sim_map_diffs, a) = Get(sim_map_diffs, b)

\* a is below b on the three deterministic keys
BelowOnKeys(a, b) ==
    \/ BelowOnTotals(a, b)
    \/ /\ LevelOnTotals(a, b)
       /\ Get(sim_head_to_head_map_diffs, <<a, b>>) < 0

Ranked == iter >= 1

\* C5 as stated: in the returned order no team is ranked ahead of a team that
\* beats it on the deterministic keys (wins, then map differential, then the
\* sign of the head-to-head map differential), for every pair of teams.
C5_EveryPairDecidedByKeys ==
    Ranked =>
        \A i \in DOMAIN sim_teams : \A j \in DOMAIN sim_teams :
            i < j => ~BelowOnKeys(sim_teams[i], sim_teams[j])

\* C5, amended: in the returned order wins and then map differential decide
\* the relative position of every pair of teams; the sign of the head-to-head
\* map differential decides it for two teams level on both that are ranked
\* directly one after the other.
C5_TotalsDecidePairsHeadToHeadNeighbours ==
    Ranked =>
        /\ \A i \in DOMAIN sim_teams : \A j \in DOMAIN sim_teams :
               i < j => ~BelowOnTotals(sim_teams[i], sim_teams[j])
        /\ \A i \in DOMAIN sim_teams : \A j \in DOMAIN sim_teams :
               j = i + 1 => ~BelowOnKeys(sim_teams[i], sim_teams[j])

\* An order in which each key has decided a pair, a pair was left to the
\* coin, and three teams level on wins and map differential stand in a
\* head-to-head cycle.
C5_Witness ==
    /\ Ranked
    /\ \E i \in DOMAIN sim_teams : \E j \in DOMAIN sim_teams :
          /\ j = i + 1
          /\ Get(sim_wins, sim_teams[i]) = Get(sim_wins, sim_teams[j])
          /\ Get(sim_map_diffs, sim_teams[i]) > Get(sim_map_diffs, sim_teams[j])
    /\ \E i \in DOMAIN sim_teams : \E j \in DOMAIN sim_teams :
          /\ j = i + 1
          /\ LevelOnTotals(sim_teams[i], sim_teams[j])
          /\ Get(sim_head_to_head_map_diffs, <<sim_teams[i], sim_teams[j]>>) > 0
    /\ \E i \in DOMAIN sim_teams : \E j \in DOMAIN sim_teams :
          /\ i < j
          /\ LevelOnTotals(sim_teams[i], sim_teams[j])
          /\ Get(sim_head_to_head_map_diffs, <<sim_teams[i], sim_teams[j]>>) = 0
    /\ \E i \in DOMAIN sim_teams : \E j \in DOMAIN sim_teams :
          /\ i < j
          /\ LevelOnTotals(sim_teams[i], sim_teams[j])
          /\ Get(sim_head_to_head_map_diffs, <<sim_teams[i], sim_teams[j]>>) < 0

SeedSet == {seeds[i] : i \in DOMAIN seeds}

\* The ranked teams other than the first two seeds, in ranked order
Remaining ==
    SelectSeq(sim_teams, LAMBDA team : team \notin {seeds[1], seeds[2]})

SeedsFollowRule ==
    /\ Len(seeds) = 8
    /\ Cardinality(SeedSet) = 8
    /\ seeds[1] = sim_teams[1]
    /\ \E i \in 2..Len(sim_teams) :
          /\ seeds[2] = sim_teams[i]
          /\ TEAM_DIVISIONS[sim_teams[i]] # TEAM_DIVISIONS[seeds[1]]
          /\ \A j \in 2..(i - 1) :
                TEAM_DIVISIONS[sim_teams[j]] = TEAM_DIVISIONS[seeds[1]]
    /\ SubSeq(seeds, 3, 8) = SubSeq(Remaining, 1, 6)

\* C6: every iteration of the simulation loop selects 8 pairwise distinct
\* seeds - the top-ranked team, then the highest-ranked other team of another
\* division, then the six highest-ranked teams left, in ranked order - and
\* adds exactly one to the title-berth counter of each seed and nothing to
\* any other team's.
C6_EightSeedsCountedOnce ==
    [][TrialStep =>
          /\ SeedsFollowRule'
          /\ \A team \in TeamSet :
                title_count'[team] =
                    title_count[team] + (IF team \in SeedSet' THEN 1 ELSE 0)]_vars

\* The second seed was taken from below the second rank, a team was left
\* without a seed, and two iterations have been counted.
C6_Witness ==
    /\ iter = 2
    /\ seeds[2] # sim_teams[2]
    /\ \E team \in TeamSet : team \notin SeedSet /\ title_count[team] = 1
    /\ \E team \in TeamSet : title_count[team] = 2

\* Every entry of a counter reads the same in the next state
SameValues(d, e) ==
    \/ d = e
    \/ \A k \in (DOMAIN d) \cup (DOMAIN e) : Get(d, k) = Get(e, k)

\* Every entry of last_full_rosters (a defaultdict(set)) reads the same
SameRosters(d, e) ==
    \/ d = e
    \/ \A k \in (DOMAIN d) \cup (DOMAIN e) :
          (IF k \in DOMAIN d THEN d[k] ELSE {}) =
          (IF k \in DOMAIN e THEN e[k] ELSE {})

SharedStateKept ==
    /\ SameValues(wins, wins')
    /\ SameValues(losses, losses')
    /\ SameValues(map_diffs, map_diffs')
    /\ SameValues(head_to_head_diffs, head_to_head_diffs')
    /\ SameValues(head_to_head_map_diffs, head_to_head_map_diffs')
    /\ stage' = stage
    /\ base_stage' = base_stage
    /\ SameValues(stage_wins, stage_wins')
    /\ SameValues(stage_losses, stage_losses')
    /\ SameValues(stage_map_diffs, stage_map_diffs')
    /\ SameValues(stage_head_to_head_map_diffs, stage_head_to_head_map_diffs')
    /\ SameValues(stage_title_wins, stage_title_wins')
    /\ SameValues(stage_title_losses, stage_title_losses')
    /\ SameValues(playoff_wins, playoff_wins')
    /\ SameValues(playoff_losses, playoff_losses')
    /\ match_id' = match_id
    /\ score' = score
    /\ scores' = scores
    /\ match_history' = match_history
    /\ SameRosters(last_full_rosters, last_full_rosters')

\* The number of matches of a list between the two teams of a pair
Meetings(ms, pair) ==
    Cardinality({i \in DOMAIN ms :
                    ms[i].teams \in {pair, <<pair[2], pair[1]>>}})

\* The locals an iteration ends with are the shared stage standings plus the
\* sampled results of the remaining matches, and nothing of an earlier
\* iteration: every remaining match adds one win, and a team's wins and map
\* differential move by at most one win and four maps per match it plays.
TrialStartsFromSnapshot ==
    /\ SumOver([team \in TeamSet |-> Get(sim_wins', team)], TeamSet) =
           SumOver([team \in TeamSet |-> Get(stage_wins, team)], TeamSet) +
           Len(matches)
    /\ \A team \in TeamSet :
          /\ Get(sim_wins', team) - Get(stage_wins, team) \in
                 0..Appearances(matches, team)
          /\ Get(sim_map_diffs', team) - Get(stage_map_diffs, team) \in
                 (0 - 4 * Appearances(matches, team))..
                 (4 * Appearances(matches, team))
    /\ \A pair \in (DOMAIN sim_head_to_head_map_diffs') \cup
                    (DOMAIN stage_head_to_head_map_diffs) :
          Get(sim_head_to_head_map_diffs', pair) -
          Get(stage_head_to_head_map_diffs, pair) \in
              (0 - 4 * Meetings(matches, pair))..(4 * Meetings(matches, pair))

----------------------------------------------------------------------------
(* Claims about the single-game predictors (checked under SpecRate) *)

\* Spacing of the floats just below 1.0
Ulp == FOne \div (2 ^ Precision)

Dist(x, y) == IF x < y THEN y - x ELSE x - y

\* 1 - p_win - p_draw of a prediction, as the floats compute it
Complement(q) == FSub(FSub(FOne, q[1]), q[2])

\* The rosters a prediction of T1 against T2 is asked with: the ones T1
\* fields, and the best one recorded for it
RostersAsked ==
    RostersT1 \cup {best_rosters[t] : t \in {"T1"} \cap DOMAIN best_rosters}

\* predict((A, B)) and predict((B, A)) of a SimplePredictor, for every pair
\* of teams and every alpha and beta, as pairs <<p, q>>
SimpleSwapped ==
    {<<simple_predict(map_diffs, head_to_head_map_diffs, <<a, b>>, m[1], m[2]),
       simple_predict(map_diffs, head_to_head_map_diffs, <<b, a>>, m[1], m[2])>> :
         a \in FeedTeams, b \in FeedTeams, m \in MarginPairs}

\* The same of a PlayerTrueSkillPredictor for T1 and T2, with either value of
\* drawable
RatedSwapped ==
    {<<predict(RatingsOf(ratings, r), RatingsOf(ratings, RosterT2), drawable),
       predict(RatingsOf(ratings, RosterT2), RatingsOf(ratings, r), drawable)>> :
         r \in RostersAsked, drawable \in BOOLEAN}

SwappedPredictions == SimpleSwapped \cup RatedSwapped

FullRosterInputs ==
    {PoolT1, PoolT1 \ {"a7"}, {"a1", "a2", "a7", "a8", "a9", "a10", "a11"}}

MembersOf(r) == {r[i] : i \in DOMAIN r}

\* r is a queued roster that full covers, no covered roster of the queue has
\* a higher conservative score, and none of equal score was used more
\* recently (the queue holds the most recent roster first)
BestQueued(q, full, r) ==
    \E i \in DOMAIN q :
        /\ q[i] = r
        /\ Eligible(r, full)
        /\ \A j \in DOMAIN q :
               Eligible(q[j], full) =>
                   /\ ~RosterLt(ratings, r, q[j])
                   /\ (~RosterLt(ratings, q[j], r) /\ q[j] # r) => i < j

\* r consists of six members of full, none of which has a lower conservative
\* score than a member left out
BestSix(full, r) ==
    /\ Len(r) = 6
    /\ Cardinality(MembersOf(r)) = 6
    /\ MembersOf(r) \subseteq full
    /\ \A x \in MembersOf(r), y \in full \ MembersOf(r) :
           min_rating(ratings, y) <= min_rating(ratings, x)

\* What C12 says of a roster r returned for the full roster full
ChosenAsClaimed(q, full, r) ==
    /\ MembersOf(r) \subseteq full
    /\ IF \E i \in DOMAIN q : Eligible(q[i], full)
       THEN BestQueued(q, full, r)
       ELSE BestSix(full, r)

\* C12: _best_roster(team, full_roster) returns a roster contained in
\* full_roster: the queued roster covered by full_roster with the highest
\* conservative score, the most recently used one among equal scores, if
\* there is one, and otherwise the six members of full_roster with the
\* highest individual conservative scores (full_roster having at least six).
\* The roster recorded by training is the one chosen for the team's players.
C12_BestRosterChosen ==
    rt_pc = "loaded" =>
        /\ \A full \in FullRosterInputs :
               \A r \in best_roster(ratings, roster_queues, "T1", full) :
                   ChosenAsClaimed(QueueOf(roster_queues, "T1"), full, r)
        /\ "T1" \in DOMAIN best_rosters =>
               ChosenAsClaimed(QueueOf(roster_queues, "T1"), PoolT1,
                               best_rosters["T1"])

\* T1 has fielded two rosters, the older one has the higher score and is the
\* one recorded; a full roster that covers neither gets its best six players,
\* which leaves two possible results.
C12_Witness ==
    /\ rt_pc = "loaded"
    /\ Len(QueueOf(roster_queues, "T1")) >= 2
    /\ RosterLt(ratings, roster_queues["T1"][1], roster_queues["T1"][2])
    /\ best_rosters["T1"] = roster_queues["T1"][2]
    /\ Cardinality(best_roster(ratings, roster_queues, "T1",
                               {"a1", "a2", "a7", "a8", "a9", "a10", "a11"})) >= 2

\* Full rosters of fewer than six players
ShortRosters == {{"a1", "a2", "a3", "a4", "a5"}, {"a8", "a9"}}

\* C13 (as claimed): when no queued roster is covered by full_roster and
\* full_roster has fewer than six players, _best_roster raises an error and
\* returns no roster.
C13_ShortRosterRefused ==
    rt_pc = "loaded" =>
        \A full \in ShortRosters :
            (~\E i \in DOMAIN QueueOf(roster_queues, "T1") :
                  Eligible(roster_queues["T1"][i], full))
                => best_roster(ratings, roster_queues, "T1", full) = {}

----------------------------------------------------------------------------
(* Further claims about the standings tracker (checked under SpecTrack) *)

\* The step feeds a game of a match whose games come one after another: the
\* match of the game before, or one that has no tally yet
InOneGo == match_id' = match_id \/ match_id' \notin DOMAIN scores

\* The two teams of the match the step feeds
FedTeamsOf == {Schedule[match_id'].teams[1], Schedule[match_id'].teams[2]}

\* The tally of team t before the game of the step is counted
PreTally(t) == IF match_id' = match_id THEN score[t] ELSE 0

\* The game of the step was won by w against l
WonBy(w, l) ==
    /\ w \in FedTeamsOf /\ l \in FedTeamsOf /\ w # l
    /\ score'[w] = PreTally(w) + 1

\* Change of counter c at team t made by counting the game of the step
Booked(c, t) == Get(WinLoss(Tracker)'[c], t) - Get(WinLoss(after_update_stage')[c], t)

WinCounters == {"wins", "stage_wins", "stage_title_wins", "playoff_wins"}

LossCounters == {"losses", "stage_losses", "stage_title_losses", "playoff_losses"}

\* No win or loss counter of any team is changed by counting the game
NothingBooked ==
    \A c \in WinCounters \cup LossCounters, t \in FeedTeams : Booked(c, t) = 0

\* The win and loss counters a match of the schedule books
FamilyOf(m) ==
    IF Schedule[m].match_format = Regular
    THEN {<<"wins", "losses">>, <<"stage_wins", "stage_losses">>}
    ELSE IF StrIn(Title, Schedule[m].stage)
    THEN {<<"stage_title_wins", "stage_title_losses">>}
    ELSE IF Schedule[m].match_format = Playoff
    THEN {<<"playoff_wins", "playoff_losses">>}
    ELSE {}

AllFamilies ==
    {<<"wins", "losses">>, <<"stage_wins", "stage_losses">>,
     <<"stage_title_wins", "stage_title_losses">>,
     <<"playoff_wins", "playoff_losses">>}

\* Counting the game changes the counters of the families fs by dw wins of
\* team a and dl losses of team b, and nothing else
BookedExactly(fs, a, dw, b, dl) ==
    \A f \in AllFamilies, t \in FeedTeams :
        /\ Booked(f[1], t) = (IF f \in fs /\ t = a THEN dw ELSE 0)
        /\ Booked(f[2], t) = (IF f \in fs /\ t = b THEN dl ELSE 0)

\* The booking rule of a game won by w against l, the match booking in the
\* families fs
BookingRule(fs, w, l) ==
    IF PreTally(w) = PreTally(l) THEN BookedExactly(fs, w, 1, l, 1)
    ELSE IF PreTally(w) = PreTally(l) - 1 THEN BookedExactly(fs, l, 0 - 1, w, 0 - 1)
    ELSE NothingBooked

NoRepeatedMatch ==
    \A stg \in DOMAIN match_history :
        \A t \in DOMAIN match_history[stg] :
            \A i \in DOMAIN match_history[stg][t], j \in DOMAIN match_history[stg][t] :
                match_history[stg][t][i] = match_history[stg][t][j] => i = j

\* C15 (as claimed): in any sequence of completed games, alternating matches
\* included, a fresh tally is opened and the match id appended to the match
\* histories only by the first game carrying the match id: a later game of
\* the match finds its tally as the earlier games left it and adds at most
\* its own win, the match histories stay as they are, and no match id occurs
\* twice in a team's match history of a stage.
C15_TallyOpenedOncePerMatch ==
    [][ Fed =>
            /\ match_id' \in DOMAIN scores =>
                   /\ match_history' = match_history
                   /\ \A t \in FedTeamsOf :
                          scores'[match_id'][t] >= scores[match_id'][t]
            /\ NoRepeatedMatch'
      ]_vars

\* The format of the match the step feeds
FedFormat == Schedule[match_id'].match_format

\* The game of the step is a draw: no team's tally rises
FedDraw == \A t \in FedTeamsOf : score'[t] = PreTally(t)

\* Tracker values a and b agree on the map differentials, the season
\* win/loss counters and the stage wins/losses
RegularCountersSame(a, b) ==
    /\ a.map_diffs = b.map_diffs
    /\ a.head_to_head_map_diffs = b.head_to_head_map_diffs
    /\ a.stage_map_diffs = b.stage_map_diffs
    /\ a.stage_head_to_head_map_diffs = b.stage_head_to_head_map_diffs
    /\ a.wins = b.wins
    /\ a.losses = b.losses
    /\ a.head_to_head_diffs = b.head_to_head_diffs
    /\ a.stage_wins = b.stage_wins
    /\ a.stage_losses = b.stage_losses

\* Tracker values a and b agree on every standings counter
AllCountersSame(a, b) ==
    /\ RegularCountersSame(a, b)
    /\ a.stage_title_wins = b.stage_title_wins
    /\ a.stage_title_losses = b.stage_title_losses
    /\ a.playoff_wins = b.playoff_wins
    /\ a.playoff_losses = b.playoff_losses

TeamPairs == FeedTeams \X FeedTeams

\* C20: in every state reachable by completed games, each head-to-head
\* counter is antisymmetric, h[(a, b)] = -h[(b, a)] (season and stage
\* head-to-head map differential, season head-to-head win differential), the
\* map differentials of all teams sum to 0 (season and stage), and the wins
\* of all teams equal the losses of all teams (season, stage, title and
\* playoff).
C20_BookkeepingIsZeroSum ==
    /\ \A pr \in TeamPairs :
           /\ Get(head_to_head_map_diffs, pr) = 0 - Get(head_to_head_map_diffs, <<pr[2], pr[1]>>)
           /\ Get(stage_head_to_head_map_diffs, pr) =
                  0 - Get(stage_head_to_head_map_diffs, <<pr[2], pr[1]>>)
           /\ Get(head_to_head_diffs, pr) = 0 - Get(head_to_head_diffs, <<pr[2], pr[1]>>)
    /\ DOMAIN head_to_head_map_diffs \subseteq TeamPairs
    /\ DOMAIN stage_head_to_head_map_diffs \subseteq TeamPairs
    /\ DOMAIN head_to_head_diffs \subseteq TeamPairs
    /\ SumValues(map_diffs) = 0
    /\ SumValues(stage_map_diffs) = 0
    /\ SumValues(wins) = SumValues(losses)
    /\ SumValues(stage_wins) = SumValues(stage_losses)
    /\ SumValues(stage_title_wins) = SumValues(stage_title_losses)
    /\ SumValues(playoff_wins) = SumValues(playoff_losses)

\* Three games of the regular match went T1, T2, T2: T2 leads the map
\* differential and the head-to-head counters, and holds the win that was
\* first booked for T1.
C20_Witness ==
    /\ match_id = 1
    /\ games_fed = 3
    /\ Get(map_diffs, "T2") = 1 /\ Get(map_diffs, "T1") = 0 - 1
    /\ Get(head_to_head_map_diffs, <<"T2", "T1">>) = 1
    /\ Get(head_to_head_diffs, <<"T2", "T1">>) = 1
    /\ Get(head_to_head_diffs, <<"T1", "T2">>) = 0 - 1
    /\ Get(wins, "T2") = 1 /\ Get(losses, "T1") = 1

----------------------------------------------------------------------------
(* Claims about the bracket of an iteration (checked under SpecBracket) *)

\* The 8 seeds of the iteration in progress
Seeds8 == SelectSeeds(sim_teams)

\* The teams of a list
TeamsIn(l) == {l[i] : i \in DOMAIN l}

\* The team of the list among seeds a and b of the iteration
WinnerOf(l, a, b) == TeamsIn(l) \cap {Seeds8[a], Seeds8[b]}

\* Exactly one team of the pairing is in the list
OneOf(pairing, l) == Cardinality(pairing \cap TeamsIn(l)) = 1

\* The seed number of a team of the iteration
SeedNo(t) == CHOOSE i \in DOMAIN Seeds8 : Seeds8[i] = t

\* The teams of the list in the order of their seed numbers
BySeed(l) ==
    LET nos == {SeedNo(t) : t \in TeamsIn(l)}
    IN Survivors(Seeds8, nos)

\* The quarterfinals pair seeds 1v8, 2v7, 3v6, 4v5 and leave one team of each
QuarterFinalsAsClaimed ==
    (ps_pc = "first round" /\ ps_pc' = "semi-finals") =>
        /\ seeds = Seeds8 /\ Len(seeds) = 8
        /\ Len(seeds') = 4
        /\ \A pr \in {<<1, 8>>, <<2, 7>>, <<3, 6>>, <<4, 5>>} :
               OneOf({seeds[pr[1]], seeds[pr[2]]}, seeds')

\* The final pairs the two semifinal winners; the one survivor is one of the
\* 8 seeds, stood in the list of every round, and exactly its top-seed
\* counter is incremented by one
FinalAsClaimed ==
    (ps_pc = "finals" /\ ps_pc' = "trials") =>
        /\ Len(seeds) = 2 /\ Len(seeds') = 1
        /\ seeds'[1] \in TeamsIn(seeds) \cap TeamsIn(Seeds8)
        /\ top1_count' = [top1_count EXCEPT ![seeds'[1]] = @ + 1]
        /\ iter' = iter + 1

----------------------------------------------------------------------------
(* Claims about the title matches (checked under SpecTitle) *)

\* The teams predict_stage returned a title berth of True for
Clinched == {team \in DOMAIN prediction : prediction[team][1] = True}

\* The stage title losses of all teams
TitleLosses == SumValues(stage_title_losses)

\* A returned value is a definite true/false
Definite(v) == v \in {True, False}

\* C18 (as claimed): in predict_stage, the top-seed probability of a team
\* that has clinched a title berth is replaced by a definite true/false only
\* once the stage title losses of all teams sum to 3; while that sum is not 3
\* the team's top-seed value stays the simulated estimate.
C18_DefiniteOnlyWhenStageFinished ==
    ps_pc = "returned" =>
        \A team \in Clinched :
            /\ Definite(prediction[team][2]) => TitleLosses = 3
            /\ TitleLosses # 3 =>
                   prediction[team][2] = Ratio(top1_count[team])

\* C18 (amended): the top-seed value of a team that has clinched a title
\* berth is False as soon as the team has a stage title loss, whatever the
\* sum; it is True when the team has no title loss and the stage title
\* losses of all teams sum to 3; otherwise it stays the simulated estimate.
C18_TitleLossDecidesAtOnce ==
    ps_pc = "returned" =>
        \A team \in Clinched :
            /\ Get(stage_title_losses, team) > 0 => prediction[team][2] = False
            /\ (Get(stage_title_losses, team) = 0 /\
                TitleLosses = 3) =>
                   prediction[team][2] = True
            /\ (Get(stage_title_losses, team) = 0 /\
                TitleLosses # 3) =>
                   prediction[team][2] = Ratio(top1_count[team])

\* predict_stage has returned after the first title match and before the
\* last: T3 has clinched a berth and lost its title match, its top-seed
\* value is False; T1 has clinched and keeps its estimate.
C18_Witness ==
    /\ ps_pc = "returned"
    /\ TitleLosses \in {1, 2}
    /\ {"T1", "T3"} \subseteq Clinched
    /\ Get(stage_title_losses, "T3") > 0
    /\ prediction["T3"][2] = False
    /\ prediction["T1"][2] = Ratio(top1_count["T1"])

----------------------------------------------------------------------------
(* Claims about the overrides of predict_stage (checked under SpecOpen) *)

\* The position of a team in the ranked order of the last iteration
PositionOf(team) == CHOOSE i \in DOMAIN sim_teams : sim_teams[i] = team

\* (wins, map_diff) of a team if it loses / wins every remaining match 4-0
WorstCase(team) ==
    <<Get(stage_wins, team),
      Get(stage_map_diffs, team) - 4 * Appearances(matches, team)>>

BestCase(team) ==
    <<Get(stage_wins, team) + Appearances(matches, team),
      Get(stage_map_diffs, team) + 4 * Appearances(matches, team)>>

\* The elimination condition: 8 teams have a worst case above the best case
\* of the team
EliminationHolds(team) ==
    Cardinality({t \in TeamSet : TupleGt(WorstCase(t), BestCase(team))}) >= 8

\* The clinch condition: fewer than 9 teams have a best case that reaches
\* the worst case of the team
ClinchHolds(team) ==
    Cardinality({t \in TeamSet : ~TupleLt(BestCase(t), WorstCase(team))}) < 9

\* C19: the overrides of predict_stage agree with every possible simulated
\* outcome: a team whose title-berth value is forced to False is outside the
\* first 8 positions of the ranked order of every iteration, whatever scores
\* the remaining regular matches were sampled to; a team forced to True is
\* within the first 8 positions of every iteration; the value is forced to
\* False exactly under the elimination condition and to True exactly under
\* the clinch condition, and no team satisfies both conditions.
C19_OverridesAgreeWithEveryOutcome ==
    ps_pc = "returned" =>
        \A team \in TeamSet :
            /\ prediction[team][1] = False => PositionOf(team) > 8
            /\ prediction[team][1] = True => PositionOf(team) <= 8
            /\ prediction[team][1] = False <=> EliminationHolds(team)
            /\ prediction[team][1] = True <=> ClinchHolds(team)
            /\ ~(EliminationHolds(team) /\ ClinchHolds(team))

\* predict_stage has returned with the match T1 v T2 still to be played: T6
\* is forced to False and stood last in the last iteration, T1 is forced to
\* True, and the last iteration sampled a win of T2, its fourth.
C19_Witness ==
    /\ ps_pc = "returned"
    /\ Len(matches) = 1
    /\ matches[1].teams = <<"T1", "T2">>
    /\ prediction["T6"][1] = False
    /\ PositionOf("T6") = 9
    /\ prediction["T1"][1] = True
    /\ PositionOf("T1") <= 8
    /\ Get(stage_wins, "T2") = 3
    /\ Get(sim_wins, "T2") = 4

\* The teams predict_stage returned a top-seed value of True for
TopSeedForced == {team \in DOMAIN prediction : prediction[team][2] = True}

\* C21: in the result of predict_stage at most one team has its top-seed
\* (stage title) value forced to True, in every reachable standings state
\* and for every list of remaining matches.
C21_AtMostOneTopSeed ==
    ps_pc = "returned" => Cardinality(TopSeedForced) <= 1

====
